---------------------------- MODULE Spec2Model ----------------------------
(***************************************************************************)
(* MARI4: the conversation context (common/llm/context.py) and the channel *)
(* session that drives the completion loop (common/llm/session.py).        *)
(*                                                                         *)
(* A record of the history is modelled by the fields trim() and the        *)
(* completion loop read: its role, its token count, its tool calls, the    *)
(* call id it answers and its creation time.  Token counts stand for the   *)
(* sum of the component costs; time is counted in ticks of a clock.        *)
(***************************************************************************)
EXTENDS Integers, Sequences, FiniteSets, TLC

\* ---------------------------------------------------------------- bounds
MaxLen == 3          \* records held by a context in SpecContext
MaxTok == 2          \* token count of a large record
MaxWindow == 3       \* largest context_window tried in SpecContext
MaxClock == 1        \* the clock runs from 0 to MaxClock

\* The token counts tried: no content, a short one, a large one.
TokenValues == {0, 1, MaxTok}
\* The tool-call ids tried in SpecContext: two make a partly answered group.
CallIdSet == {1, 2}

MaxOps == 2          \* session calls made when several are made
MaxSharedRounds == 3 \* rounds of the completion loop when several calls are made
MaxCalls == 3        \* tool calls in one completion response
MaxUnknownCalls == 1 \* calls of an unregistered tool in one completion cycle
MaxRounds == 10      \* rounds of the completion loop when one call is made
MaxToolRounds == 1   \* rounds of the completion loop when the tools are tried
MaxImageTok == 1     \* token count of an Image component
MaxTasks == 2        \* rows inserted in scheduled_tasks
MaxSchedClock == 2   \* the clock of the scheduler runs from 0 to MaxSchedClock
MaxStarts == 2       \* worker loops created by start_worker
MaxQuotaTasks == 11  \* rows inserted through the schedule_task tool
MaxOthers == 1       \* of them, rows of another user than the first
MaxEnded == 1        \* tasks that leave the pending status in that time
MaxSteps == 2        \* completions made for one message or scheduled task
MaxDays == 3         \* the clock of the purge runs from day 1 to day MaxDays

\* ------------------------------------------------------ program constants
DEFAULT_CONTEXT_AGE == 1     \* the maximum age of a record, in clock ticks
MAX_RECURSION_DEPTH == 10
max_tool_calls_per_completion == 20
SCHEDULE_TASK_LIMIT == 5
MAX_PENDING_TASKS == 10      \* pending tasks a user may have
MIN_DELAY_MINUTES == 2

NoId == 0

\* ------------------------------------------------------------ the records
ToolCallRecord(id, name) == [id |-> id, function_name |-> name]

MessageRecord(tok, t) ==
    [role |-> "user", tokens |-> tok, tool_calls |-> << >>,
     tool_call_id |-> NoId, created_at |-> t, tag |-> "message",
     origin |-> "shared", autonomous_task |-> FALSE, images |-> 0]

AssistantRecord(tok, calls, t) ==
    [role |-> "assistant", tokens |-> tok, tool_calls |-> calls,
     tool_call_id |-> NoId, created_at |-> t, tag |-> "completion",
     origin |-> "shared", autonomous_task |-> FALSE, images |-> 0]

ToolResponseRecord(id, tok, t) ==
    [role |-> "tool", tokens |-> tok, tool_calls |-> << >>,
     tool_call_id |-> id, created_at |-> t, tag |-> "result",
     origin |-> "shared", autonomous_task |-> FALSE, images |-> 0]

token_count(m) == m.tokens

\* {tc.id for tc in message.tool_calls}
CallIds(m) == {m.tool_calls[i].id : i \in DOMAIN m.tool_calls}

\* The subsequence of s at the indices K, in order.
RECURSIVE SubSeqBy(_, _)
SubSeqBy(s, K) ==
    IF K = {} THEN << >>
    ELSE LET i == CHOOSE x \in K : \A y \in K : x >= y
         IN  Append(SubSeqBy(s, K \ {i}), s[i])

RECURSIVE SumTokens(_)
SumTokens(s) ==
    IF s = << >> THEN 0 ELSE token_count(Head(s)) + SumTokens(Tail(s))

Min(a, b) == IF a <= b THEN a ELSE b

\* ------------------------------------------------------------------ trim
\* A variant of step 1 that keeps a record whose age equals the maximum.
AgeKept_Inclusive(msgs, t, age) ==
    {i \in DOMAIN msgs : t - msgs[i].created_at <= age}

\* Step 1: the indices of the records young enough to stay.
AgeKept(msgs, t, age) ==
    {i \in DOMAIN msgs : t - msgs[i].created_at < age}

\* Step 2: the loop over reversed(self._messages).  i is the index of the
\* record looked at, total the tokens counted so far, kept the indices put
\* in valid_messages so far.
RECURSIVE BudgetScan(_, _, _, _, _)
BudgetScan(msgs, W, i, total, kept) ==
    IF i = 0 THEN kept
    ELSE LET msg_tokens == token_count(msgs[i]) IN
         IF kept = {} /\ (W <= 0 \/ msg_tokens >= W)
         THEN BudgetScan(msgs, W, i - 1,
                         IF W > 0 THEN Min(msg_tokens, W) ELSE msg_tokens,
                         kept \cup {i})
         ELSE IF W <= 0 \/ total + msg_tokens <= W
         THEN BudgetScan(msgs, W, i - 1, total + msg_tokens, kept \cup {i})
         ELSE BudgetScan(msgs, W, i - 1, total, kept)

BudgetKept(msgs, W) == BudgetScan(msgs, W, Len(msgs), 0, {})

\* Step 3, first pass over valid_messages (the indices K of msgs): a tool
\* response stays only if an assistant met earlier lists its call id.
HasCalls(m) == m.role = "assistant" /\ m.tool_calls # << >>

CleanedKept(msgs, K) ==
    {i \in K : msgs[i].role = "tool" =>
        \E j \in K : j < i /\ HasCalls(msgs[j])
                     /\ msgs[i].tool_call_id \in CallIds(msgs[j])}

ResolvedIds(msgs, C) ==
    {msgs[i].tool_call_id : i \in {k \in C : msgs[k].role = "tool"}}

\* A variant of step 3 that stops after the first pass.
FinalKept_FirstPassOnly(msgs, K) == CleanedKept(msgs, K)

\* A variant of step 3 whose second pass removes the unresolved assistants
\* and leaves their tool responses.
FinalKept_KeepResponses(msgs, K) ==
    LET C == CleanedKept(msgs, K)
        resolved == ResolvedIds(msgs, C)
    IN  {i \in C : HasCalls(msgs[i]) => CallIds(msgs[i]) \subseteq resolved}

\* Step 3, second pass over cleaned_messages: an assistant whose call ids are
\* not all resolved goes, and so does every later tool response to its ids.
FinalKept(msgs, K) ==
    LET C == CleanedKept(msgs, K)
        resolved == ResolvedIds(msgs, C)
        Unresolved(j) == HasCalls(msgs[j]) /\ ~(CallIds(msgs[j]) \subseteq resolved)
    IN  IF \E j \in K : HasCalls(msgs[j])
        THEN {i \in C :
                IF HasCalls(msgs[i]) THEN ~Unresolved(i)
                ELSE msgs[i].role = "tool" =>
                        ~\E j \in C : j < i /\ Unresolved(j)
                                     /\ msgs[i].tool_call_id \in CallIds(msgs[j])}
        ELSE C

\* ConversationContext.trim(): the record list it leaves.
TrimResult(msgs, t, W, age) ==
    LET aged == SubSeqBy(msgs, AgeKept(msgs, t, age))
    IN  SubSeqBy(aged, FinalKept(aged, BudgetKept(aged, W)))

\* -------------------------------------------------------------- the state
None == "None"
Callers == {"c1", "c2"}
Channels == {"ch1", "ch2"}
\* What memory.get_profile_text gives for the people of a request: nothing,
\* or the profile of one of two people.
Profiles == {"", "alice", "bob"}
ToolNames == {"schedule_task", "search_web", "unknown_tool"}
Registered_All == ToolNames

\* ToolRegistry._tools: the names a tool is registered under.
Registered == {"schedule_task", "search_web"}

VARIABLES
    messages,          \* _messages of the session's shared ConversationContext
    context_window,    \* ConversationContext.context_window
    now,               \* the clock read by datetime.now()
    trimmed,           \* TRUE when the last operation on the context was trim()
    pre_messages,      \* trim(): self._messages when trim() was entered
    aged_kept,         \* trim(): indices of pre_messages kept by the age step
    budget_kept,       \* trim(): indices of the aged list put in valid_messages
    final_kept,        \* trim(): indices of the aged list left by the cleanup
    developer_prompt,  \* ConversationContext.developer_prompt
    payload            \* what prepare_payload() returned, when it was the last operation

VARIABLES
    lock,                  \* ChannelSession._lock: the caller holding it, or None
    isolated_messages,     \* _messages of run_autonomous_task's isolated_context
    context_is_isolated,   \* TRUE while self.context is the isolated context
    tool_call_counter,     \* ChannelSession._tool_call_counter
    total_tool_calls,      \* ChannelSession._total_tool_calls_in_session
    trigger_message,       \* ChannelSession.trigger_message (TRUE: a message)
    frame,                 \* per caller: where it is and the locals of its call
    workload,              \* what the callers and the completion API will do at most
    rounds,                \* responses so far that made the completion loop go on
    ops_started,           \* top-level calls made so far
    handler_runs,          \* handlers invoked since the last top-level completion began
    last_tool,             \* what _execute_tools did with the last tool call
    appenders,             \* callers that appended a record while the lock was last held
    schedule_limit_hit     \* TRUE once a schedule_task call has been refused

ctxVars == <<messages, context_window, now, trimmed,
             pre_messages, aged_kept, budget_kept, final_kept,
             developer_prompt, payload>>

sessVars == <<lock, isolated_messages, context_is_isolated, tool_call_counter,
              total_tool_calls, trigger_message, frame, workload, rounds,
              ops_started, handler_runs, last_tool, appenders,
              schedule_limit_hit>>

VARIABLES
    scheduled_tasks,       \* the rows of the table scheduled_tasks, by id
    running,               \* TaskScheduler._running
    worker,                \* TaskScheduler._worker_task: where _worker_loop is, its locals
    executor_calls,        \* per task id, the times self.executor was awaited for it
    cancel_result,         \* a call of cancel_task and the value it returns to its caller
    pending_result,        \* the list get_pending_tasks returns to its caller
    schedule_result,       \* a call of the schedule_task tool and the response it returns
    cancelled_ok,          \* ids of the tasks for which cancel_task returned True
    starts                 \* worker loops created so far

schedVars == <<scheduled_tasks, running, worker, executor_calls,
               cancel_result, pending_result, schedule_result, cancelled_ok,
               starts>>

VARIABLES
    user_profile,          \* Chat._get_developer_prompt._user_profile
    requests               \* per channel: the message or task being answered there

chatVars == <<user_profile, requests>>

vars == <<ctxVars, sessVars, schedVars, chatVars>>

\* Either one call is made on the session and the completion loop may run to
\* its ceilings, asking for one registered tool throughout, or several calls
\* are made and the loop is short.
Workloads ==
    {[ops |-> 1, rounds |-> MaxRounds, tools |-> {name}, mixed |-> {},
      faulty |-> {}, images |-> {0}, failing |-> FALSE,
      attachments |-> {0, 1}] : name \in Registered}
    \cup {[ops |-> MaxOps, rounds |-> MaxSharedRounds, tools |-> Registered,
           mixed |-> {}, faulty |-> {}, images |-> {0}, failing |-> FALSE,
      attachments |-> {0, 1}]}

\* No call is made on the session.
NoWorkload == [ops |-> 0, rounds |-> 0, tools |-> {}, mixed |-> {},
               faulty |-> {}, images |-> {0}, failing |-> FALSE,
      attachments |-> {0, 1}]

\* One call is made, the loop is short, a response may ask for any MaxCalls
\* tools, registered or not, and the handler of search_web may raise.
ToolWorkloads ==
    {[ops |-> 1, rounds |-> MaxToolRounds, tools |-> Registered,
      mixed |-> [1..MaxCalls -> ToolNames], faulty |-> {"search_web"},
      images |-> {0}, failing |-> FALSE,
      attachments |-> {0, 1}]}

\* Several calls are made, the loop is short, the messages ingested may hold
\* an image and the completion client may fail.
ImageWorkloads ==
    {[ops |-> MaxOps, rounds |-> MaxToolRounds, tools |-> {"search_web"},
      mixed |-> {}, faulty |-> {}, images |-> {0, 1}, failing |-> TRUE,
      attachments |-> {0, 1}]}

\* defaultdict(int)
ZeroCalls == [n \in ToolNames |-> 0]
NoCounter == [is_none |-> TRUE, calls |-> ZeroCalls]
NewCounter == [is_none |-> FALSE, calls |-> ZeroCalls]

NoTool == [id |-> NoId, function_name |-> None, outcome |-> None]

\* A caller outside the session, and the locals of a call just made.
IdleFrame ==
    [pc |-> "idle", op |-> None, trigger_message |-> FALSE,
     recursion_depth |-> 0, is_root_call |-> FALSE, tool_calls |-> << >>,
     original_tool_counter |-> NoCounter, result |-> None,
     completions |-> 0, only_tool_calls |-> TRUE, requested |-> << >>]

\* self.executor is not being awaited.
NoCall == [channel_id |-> 0, user_id |-> 0, task_description |-> None,
           message_id |-> 0]

\* No worker task: none was created, or the one created has ended.  call
\* holds the arguments of the executor being awaited, outcome how the
\* executor awaited last ended, and stop_awaits is TRUE while stop_worker
\* awaits the task.
NoWorker == [pc |-> "none", pending_tasks |-> << >>, i |-> 0,
             call |-> NoCall, outcome |-> None, stop_awaits |-> FALSE]

\* No call of cancel_task is returning.
NoCancel == [task_id |-> NoId, user_id |-> 0, returned |-> FALSE]

\* No call of get_pending_tasks is returning.
NoPending == [called |-> FALSE, tasks |-> << >>]

\* No call of the schedule_task tool is returning.
NoSchedule == [user_id |-> 0, error |-> None, task_id |-> NoId]

\* TaskScheduler.__init__ on a new database file.
InitSchedulerVars ==
    /\ scheduled_tasks = << >>
    /\ running = FALSE
    /\ worker = NoWorker
    /\ executor_calls = [id \in 1..MaxTasks |-> 0]
    /\ cancel_result = NoCancel
    /\ pending_result = NoPending
    /\ schedule_result = NoSchedule
    /\ cancelled_ok = {}
    /\ starts = 0

\* No message or task is being answered in the channel.
NoRequest == [pc |-> "idle", kind |-> None, profile |-> "", prompt |-> "",
              steps |-> 0]

\* Chat.__init__: no profile is injected, every session is new.
InitChatVars ==
    /\ user_profile = ""
    /\ requests = [ch \in Channels |-> NoRequest]

InitSessionVars ==
    /\ InitChatVars
    /\ lock = None
    /\ isolated_messages = << >>
    /\ context_is_isolated = FALSE
    /\ tool_call_counter = NoCounter
    /\ total_tool_calls = 0
    /\ trigger_message = FALSE
    /\ frame = [p \in Callers |-> IdleFrame]
    /\ ops_started = 0
    /\ handler_runs = ZeroCalls
    /\ last_tool = NoTool
    /\ appenders = {}
    /\ schedule_limit_hit = FALSE
    /\ rounds = 0
    /\ InitSchedulerVars

\* ------------------------------------------- the context on its own
\* The records SpecContext appends: what add_user_message,
\* add_assistant_message and add_tool_response can be given.
RECURSIVE CallList(_)
CallList(S) ==
    IF S = {} THEN << >>
    ELSE LET i == CHOOSE x \in S : \A y \in S : x >= y
         IN  Append(CallList(S \ {i}), ToolCallRecord(i, "search_web"))

NewRecords(t) ==
    {MessageRecord(tok, t) : tok \in TokenValues}
    \cup {AssistantRecord(1, CallList(S), t) : S \in SUBSET CallIdSet}
    \cup {ToolResponseRecord(id, 1, t) : id \in CallIdSet}

NoTrim ==
    /\ trimmed' = FALSE
    /\ pre_messages' = << >>
    /\ aged_kept' = {}
    /\ budget_kept' = {}
    /\ final_kept' = {}
    /\ payload' = << >>

\* The developer prompts the template can render.
Prompts == {"prompt", "prompt with profile"}

InitContext ==
    /\ messages = << >>
    /\ context_window \in {1, MaxWindow}
    /\ now = 0
    /\ trimmed = FALSE
    /\ pre_messages = << >>
    /\ aged_kept = {}
    /\ budget_kept = {}
    /\ final_kept = {}
    /\ developer_prompt = "prompt"
    /\ payload = << >>
    /\ InitSessionVars
    /\ workload = NoWorkload

\* ConversationContext.add_message, reached through add_user_message,
\* add_assistant_message and add_tool_response, which stamp the record with
\* the current time.
add_message ==
    /\ Len(messages) < MaxLen
    /\ \E r \in NewRecords(now) : messages' = Append(messages, r)
    /\ NoTrim
    /\ UNCHANGED <<context_window, now, developer_prompt, sessVars, schedVars,
                    chatVars>>

\* Time passes.
Tick ==
    /\ now < MaxClock
    /\ now' = now + 1
    /\ NoTrim
    /\ UNCHANGED <<messages, context_window, developer_prompt, sessVars,
                   schedVars, chatVars>>

\* The body of ConversationContext.trim()
Trimming ==
    /\ LET ak == AgeKept(messages, now, DEFAULT_CONTEXT_AGE)
           aged == SubSeqBy(messages, ak)
           bk == BudgetKept(aged, context_window)
           fk == FinalKept(aged, bk)
       IN  /\ pre_messages' = messages
           /\ aged_kept' = ak
           /\ budget_kept' = bk
           /\ final_kept' = fk
           /\ messages' = SubSeqBy(aged, fk)
    /\ trimmed' = TRUE

\* ConversationContext.trim()
trim ==
    /\ Trimming
    /\ payload' = << >>
    /\ UNCHANGED <<context_window, now, developer_prompt, sessVars, schedVars,
                    chatVars>>

\* ConversationContext.clear()
clear ==
    /\ messages # << >>
    /\ messages' = << >>
    /\ NoTrim
    /\ UNCHANGED <<context_window, now, developer_prompt, sessVars, schedVars,
                    chatVars>>

NextContext == add_message \/ Tick \/ trim \/ clear

SpecContext == InitContext /\ [][NextContext]_vars

\* --------------------------------------------- the payload of a context
\* ToolCallRecord.to_payload
ToolCallPayload(tc) ==
    [id |-> tc.id, type |-> "function", name |-> tc.function_name]

\* An AssistantRecord with tool calls is serialized as a plain MessageRecord.
to_payload_Plain(m) ==
    [role |-> m.role, content |-> "list", text |-> m.tokens,
     tool_calls |-> << >>, tool_call_id |-> NoId]

\* to_payload of a stored record: MessageRecord.to_payload gives the list of
\* the components, AssistantRecord.to_payload gives content None and the
\* tool calls when the record has tool calls, ToolResponseRecord.to_payload
\* gives the JSON string of response_data and the tool_call_id.  text stands
\* for what the content holds.
to_payload(m) ==
    IF m.role = "assistant" /\ m.tool_calls # << >>
    THEN [role |-> "assistant", content |-> "null", text |-> 0,
          tool_calls |-> [i \in DOMAIN m.tool_calls |->
                             ToolCallPayload(m.tool_calls[i])],
          tool_call_id |-> NoId]
    ELSE IF m.role = "tool"
    THEN [role |-> "tool", content |-> "string", text |-> m.tokens,
          tool_calls |-> << >>, tool_call_id |-> m.tool_call_id]
    ELSE [role |-> m.role, content |-> "list", text |-> m.tokens,
          tool_calls |-> << >>, tool_call_id |-> NoId]

\* The payload has no developer entry.
WithDeveloper_Omitted(prompt, entries) == entries

\* [dev_message] + self._messages, serialized: the developer record is built
\* from self.developer_prompt and is not stored.
WithDeveloper(prompt, entries) ==
    <<[role |-> "developer", content |-> "list", text |-> prompt,
       tool_calls |-> << >>, tool_call_id |-> NoId]>> \o entries

\* token_count of TextComponent(self.developer_prompt): the number of tokens
\* of the text, longer with a profile in it.
PromptTokens(prompt) == IF prompt = "prompt" THEN 1 ELSE 2

\* self.context.developer_prompt = self.developer_prompt_template()
set_developer_prompt ==
    /\ \E prompt \in Prompts \ {developer_prompt} : developer_prompt' = prompt
    /\ NoTrim
    /\ UNCHANGED <<messages, context_window, now, sessVars, schedVars,
                    chatVars>>

\* ConversationContext.prepare_payload()
prepare_payload ==
    /\ Trimming
    /\ payload' = WithDeveloper(developer_prompt,
                                [i \in DOMAIN messages' |-> to_payload(messages'[i])])
    /\ UNCHANGED <<context_window, now, developer_prompt, sessVars, schedVars,
                    chatVars>>

InitPayload ==
    /\ InitContext
    /\ context_window = MaxWindow

NextPayload ==
    add_message \/ Tick \/ set_developer_prompt \/ prepare_payload

SpecPayload == InitPayload /\ [][NextPayload]_vars

\* ---------------------------------------------------------- the session
\* self.context._messages: the list self.context refers to at the moment.
Ctx == IF context_is_isolated THEN isolated_messages ELSE messages

SetCtx(new) ==
    IF context_is_isolated
    THEN isolated_messages' = new /\ messages' = messages
    ELSE messages' = new /\ isolated_messages' = isolated_messages

Tagged(r, tag) == [r EXCEPT !.tag = tag]

\* add_message on the context the session is using: the record belongs to
\* that context.
AddToCtx(r) ==
    SetCtx(Append(Ctx, [r EXCEPT !.origin = IF context_is_isolated
                                            THEN "isolated" ELSE "shared"]))

\* The record a context gives to a message added to it.
InCtx(r) == [r EXCEPT !.origin = IF context_is_isolated
                                 THEN "isolated" ELSE "shared"]

\* The tool calls a completion response can hold: one call or MaxCalls calls
\* of a registered tool, or one call of a tool that is not registered.
CallShapes ==
    {[i \in 1..n |-> name] : n \in {1, MaxCalls}, name \in Registered}
    \cup {<<name>> : name \in ToolNames \ Registered}

\* The completion client's responses: text or nothing, or tool calls.
Responses ==
    {[content |-> c, names |-> << >>] : c \in {"text", "empty"}}
    \cup {[content |-> "empty", names |-> ns] : ns \in CallShapes}

\* `async with self._lock` can be entered.
LockFree_Ignored == TRUE

LockFree == lock = None

DepthLimitReached_OneLate(depth) == depth > MAX_RECURSION_DEPTH

\* recursion_depth >= MAX_RECURSION_DEPTH
DepthLimitReached(depth) == depth >= MAX_RECURSION_DEPTH

ScheduleLimitExceeded_OneLate(n) == n > SCHEDULE_TASK_LIMIT + 1

\* self._tool_call_counter['schedule_task'] > 5
ScheduleLimitExceeded(n) == n > SCHEDULE_TASK_LIMIT

ContextFrame == UNCHANGED <<context_window, now, trimmed, pre_messages,
                            aged_kept, budget_kept, final_kept,
                            developer_prompt, payload, schedVars, chatVars>>

SessionFrame == ContextFrame /\ UNCHANGED <<workload, rounds, schedule_limit_hit>>

\* A caller calls ingest_message, run_completion or run_autonomous_task and
\* reaches `async with self._lock`.
Call(p) ==
    /\ frame[p].pc = "idle"
    /\ ops_started < workload.ops
    /\ frame' = [frame EXCEPT ![p].pc = "waiting"]
    /\ ops_started' = ops_started + 1
    /\ SessionFrame
    /\ UNCHANGED <<messages, lock, isolated_messages, context_is_isolated,
                   tool_call_counter, total_tool_calls, trigger_message,
                   handler_runs, last_tool, appenders>>

Ingested_Replacing(msgs) == <<MessageRecord(1, now)>>

\* _ingest_message_unsafe: self.context.add_user_message(components, ...).
Ingested(msgs) == Append(msgs, MessageRecord(1, now))

\* ChannelSession.ingest_message: the lock is taken, the User record is
\* appended and the lock is released without a suspension in between.
\* The last record with n Image components among its components.
WithImages(msgs, n) ==
    [msgs EXCEPT ![Len(msgs)].images = n,
                 ![Len(msgs)].tokens = @ + n * MaxImageTok]

ingest_message(p) ==
    /\ frame[p].pc = "waiting"
    /\ LockFree
    /\ \E n \in workload.images : SetCtx(WithImages(Ingested(Ctx), n))
    /\ appenders' = IF lock = None THEN {p} ELSE appenders \cup {p}
    /\ frame' = [frame EXCEPT ![p] = IdleFrame]
    /\ SessionFrame
    /\ UNCHANGED <<lock, context_is_isolated, tool_call_counter, total_tool_calls,
                   trigger_message, ops_started, handler_runs,
                   last_tool>>

\* ChannelSession.run_completion: the lock is taken and
\* _run_completion_unsafe(trigger_message) is called, with the message the
\* callers of run_completion pass.
run_completion(p) ==
    /\ frame[p].pc = "waiting"
    /\ LockFree
    /\ lock' = p
    /\ appenders' = {}
    /\ handler_runs' = ZeroCalls
    /\ last_tool' = NoTool
    /\ frame' = [frame EXCEPT ![p].pc = "enter", ![p].op = "completion",
                              ![p].trigger_message = TRUE]
    /\ SessionFrame
    /\ UNCHANGED <<messages, isolated_messages, context_is_isolated,
                   tool_call_counter, total_tool_calls, trigger_message,
                   ops_started>>

IsolatedContext_Seeded(prompt) ==
    messages \o <<[prompt EXCEPT !.origin = "isolated",
                                 !.autonomous_task = TRUE]>>

\* The isolated ConversationContext of run_autonomous_task after
\* add_user_message(task_prompt): one record, which belongs to it.
IsolatedContext(prompt) ==
    <<[prompt EXCEPT !.origin = "isolated", !.autonomous_task = TRUE]>>

\* ChannelSession.run_autonomous_task, up to the call of
\* _run_completion_unsafe(None): the lock is taken, the isolated context is
\* made and seeded with the task prompt, and it replaces self.context.
run_autonomous_task(p) ==
    /\ frame[p].pc = "waiting"
    /\ LockFree
    /\ lock' = p
    /\ isolated_messages' =
          IsolatedContext(Tagged(MessageRecord(1, now), "task_prompt"))
    /\ context_is_isolated' = TRUE
    /\ tool_call_counter' = NoCounter
    /\ appenders' = {p}
    /\ handler_runs' = ZeroCalls
    /\ last_tool' = NoTool
    /\ frame' = [frame EXCEPT ![p].pc = "enter", ![p].op = "autonomous",
                              ![p].original_tool_counter = tool_call_counter]
    /\ SessionFrame
    /\ UNCHANGED <<messages, total_tool_calls, trigger_message,
                   ops_started>>

\* self.context.prepare_payload(): trim() of the current context.
Prepared(msgs) == TrimResult(msgs, now, context_window, DEFAULT_CONTEXT_AGE)

\* _run_completion_unsafe from its entry to its first suspension: the two
\* ceilings, the counters of a root call, the trigger message and, with no
\* trigger message, the payload.
Enter(p) ==
    /\ frame[p].pc = "enter"
    /\ LET f == frame[p]
           is_root == tool_call_counter.is_none
           counter == IF is_root THEN NewCounter ELSE tool_call_counter
           total == IF is_root THEN 0 ELSE total_tool_calls
           canned == AssistantRecord(1, << >>, now)
       IN  IF DepthLimitReached(f.recursion_depth)
           THEN /\ AddToCtx(Tagged(canned, "depth_limit"))
                /\ appenders' = appenders \cup {p}
                /\ frame' = [frame EXCEPT ![p].pc = "return",
                                          ![p].result = "depth_limit"]
                /\ UNCHANGED <<tool_call_counter, total_tool_calls,
                               trigger_message>>
           ELSE IF total >= max_tool_calls_per_completion
           THEN /\ AddToCtx(Tagged(canned, "tool_limit"))
                /\ appenders' = appenders \cup {p}
                /\ tool_call_counter' = counter
                /\ total_tool_calls' = total
                /\ frame' = [frame EXCEPT ![p].pc = "return",
                                          ![p].result = "tool_limit"]
                /\ UNCHANGED trigger_message
           ELSE /\ tool_call_counter' = counter
                /\ total_tool_calls' = total
                /\ trigger_message' = (f.recursion_depth = 0 /\ f.trigger_message)
                /\ appenders' = appenders
                /\ IF f.recursion_depth = 0 /\ f.trigger_message
                   THEN /\ frame' = [frame EXCEPT
                                ![p].pc = "attachments",
                                ![p].is_root_call = f.is_root_call \/ is_root]
                        /\ UNCHANGED <<messages, isolated_messages>>
                   ELSE /\ frame' = [frame EXCEPT
                                ![p].pc = "client",
                                ![p].completions = f.completions + 1,
                                ![p].is_root_call = f.is_root_call \/ is_root]
                        /\ SetCtx(Prepared(Ctx))
    /\ SessionFrame
    /\ UNCHANGED <<lock, context_is_isolated, ops_started,
                   handler_runs, last_tool>>

\* process_attachments(trigger_message) returns: its components, if any, are
\* added to the last record when that is a User record; then the payload.
Attachments(p) ==
    /\ frame[p].pc = "attachments"
    /\ \E extra \in workload.attachments :
         LET n == Len(Ctx)
             extended ==
                IF extra > 0 /\ n > 0 /\ Ctx[n].role = "user"
                THEN [Ctx EXCEPT ![n].tokens = @ + extra]
                ELSE Ctx
         IN  SetCtx(Prepared(extended))
    /\ frame' = [frame EXCEPT ![p].pc = "client",
                              ![p].completions = frame[p].completions + 1]
    /\ SessionFrame
    /\ UNCHANGED <<lock, context_is_isolated, tool_call_counter,
                   total_tool_calls, trigger_message,
                   ops_started, handler_runs, last_tool, appenders>>

\* The call ids that occur in a list of records.
IdsIn(msgs) ==
    UNION {CallIds(msgs[i]) \cup {msgs[i].tool_call_id} : i \in DOMAIN msgs}
       \ {NoId}

\* The ids the completion API gives to n tool calls: ids that no record of
\* the session carries (the least such numbers stand for them).
RECURSIVE FreshIds(_, _)
FreshIds(n, used) ==
    IF n = 0 THEN << >>
    ELSE LET id == CHOOSE i \in 1..(Cardinality(used) + 1) :
                      i \notin used /\ \A j \in 1..(i - 1) : j \in used
         IN  <<id>> \o FreshIds(n - 1, used \cup {id})

\* The tool calls of a response, with the ids the client gives them.
ResponseCalls(names) ==
    LET ids == FreshIds(Len(names), IdsIn(messages) \cup IdsIn(isolated_messages))
    IN  [i \in 1..Len(names) |-> ToolCallRecord(ids[i], names[i])]

WithoutEmpty_Kept(msgs, record) == msgs

\* _messages.pop() under its condition: the empty record is the last one.
WithoutEmpty(msgs, record) ==
    IF msgs # << >> /\ msgs[Len(msgs)] = record
    THEN SubSeq(msgs, 1, Len(msgs) - 1)
    ELSE msgs

\* client.create_completion returns: the AssistantRecord is appended, and
\* the loop goes on to the tools, to a retry of an empty response, or ends.
ClientReturns(p) ==
    /\ frame[p].pc \in {"client", "retry"}
    /\ \E resp \in Responses \cup
                     {[content |-> "empty", names |-> ns] : ns \in workload.mixed} :
         /\ (resp.names # << >> \/ resp.content = "empty") => rounds < workload.rounds
         /\ \A i \in DOMAIN resp.names :
               IF resp.names[i] \in Registered
               THEN resp.names[i] \in workload.tools
               ELSE tool_call_counter.calls[resp.names[i]] < MaxUnknownCalls
         /\ rounds' = IF resp.names # << >> \/ resp.content = "empty"
                       THEN rounds + 1 ELSE rounds
         /\ LET f == frame[p]
                tool_calls == ResponseCalls(resp.names)
                record == Tagged(AssistantRecord(1, tool_calls, now),
                                 IF resp.content = "text" THEN "completion" ELSE "empty")
                nudge == Tagged(MessageRecord(1, now), "nudge")
            IN  /\ total_tool_calls' = total_tool_calls + Len(tool_calls)
                /\ appenders' = appenders \cup {p}
                /\ IF tool_calls # << >>
                   THEN /\ AddToCtx(record)
                        /\ frame' = [frame EXCEPT ![p].pc = "tools",
                                                  ![p].tool_calls = tool_calls,
                                                  ![p].requested =
                                                      IF f.completions = 1
                                                      THEN tool_calls ELSE << >>]
                   ELSE IF resp.content = "empty"
                   THEN /\ SetCtx(Append(WithoutEmpty(Append(Ctx, InCtx(record)),
                                                          InCtx(record)),
                                             InCtx(nudge)))
                        /\ frame' = [frame EXCEPT
                               ![p].pc = "enter",
                               ![p].recursion_depth = f.recursion_depth + 1,
                               ![p].only_tool_calls = FALSE]
                   ELSE /\ AddToCtx(record)
                        /\ frame' = [frame EXCEPT ![p].pc = "return",
                                                  ![p].result = "final",
                                                  ![p].only_tool_calls = FALSE]
    /\ ContextFrame
    /\ last_tool' = NoTool
    /\ UNCHANGED <<lock, context_is_isolated, tool_call_counter,
                   trigger_message, ops_started, handler_runs, workload,
                   schedule_limit_hit>>

\* One turn of the loop of _execute_tools; after the last tool call,
\* _run_completion_unsafe is called one level deeper.
ToolResult_Unpaired(tool_call) == ToolResponseRecord(NoId, 1, now)

\* The ToolResponseRecord that Tool.execute wraps around the handler's result
\* (or around the handler's exception).
ToolResult(tool_call) == ToolResponseRecord(tool_call.id, 1, now)

\* Tool.execute when the handler raises: the record holds the call's id and
\* {'error': str(e)}.
ErrorResult_Plain(tool_call) == ToolResult(tool_call)

ErrorResult(tool_call) == Tagged(ToolResult(tool_call), "error")

ExecuteTool(p) ==
    /\ frame[p].pc = "tools"
    /\ \E raised \in IF Head(frame[p].tool_calls).function_name \in workload.faulty
                     THEN BOOLEAN ELSE {FALSE} :
       LET f == frame[p]
           tool_call == Head(f.tool_calls)
           name == tool_call.function_name
           calls == tool_call_counter.calls
           counted == [calls EXCEPT ![name] = @ + 1]
           refusal == ToolResponseRecord(tool_call.id, 1, now)
           response == IF raised THEN ErrorResult(tool_call)
                       ELSE ToolResult(tool_call)
           outcome ==
              IF name = "schedule_task" /\ ScheduleLimitExceeded(counted[name])
              THEN "refused"
              ELSE IF name \notin Registered THEN "skipped"
              ELSE IF raised THEN "raised"
              ELSE "executed"
       IN  /\ tool_call_counter' = [is_none |-> FALSE, calls |-> counted]
           /\ last_tool' = [id |-> tool_call.id, function_name |-> name,
                            outcome |-> outcome]
           /\ schedule_limit_hit' = (schedule_limit_hit \/ outcome = "refused")
           /\ IF outcome = "refused"
              THEN /\ AddToCtx(Tagged(refusal, "schedule_limit"))
                   /\ appenders' = appenders \cup {p}
                   /\ handler_runs' = handler_runs
              ELSE IF outcome = "skipped"
              THEN /\ UNCHANGED <<messages, isolated_messages, appenders,
                                  handler_runs>>
              ELSE /\ AddToCtx(response)
                   /\ appenders' = appenders \cup {p}
                   /\ handler_runs' = [handler_runs EXCEPT ![name] = @ + 1]
           /\ IF Len(f.tool_calls) = 1
              THEN frame' = [frame EXCEPT
                        ![p].pc = "enter",
                        ![p].tool_calls = << >>,
                        ![p].recursion_depth = f.recursion_depth + 1]
              ELSE frame' = [frame EXCEPT ![p].tool_calls = Tail(f.tool_calls)]
    /\ ContextFrame
    /\ UNCHANGED <<lock, context_is_isolated, total_tool_calls,
                   trigger_message, ops_started, workload, rounds>>

\* The clone of an AssistantRecord that run_autonomous_task adds to the
\* shared context.
Clone(m) == [m EXCEPT !.created_at = now, !.autonomous_task = TRUE,
                       !.origin = "shared"]

RECURSIVE AssistantClones(_)
AssistantClones(msgs) ==
    IF msgs = << >> THEN << >>
    ELSE IF Head(msgs).role = "assistant"
    THEN <<Clone(Head(msgs))>> \o AssistantClones(Tail(msgs))
    ELSE AssistantClones(Tail(msgs))

\* _run_completion_unsafe returns through all its levels (the finally of a
\* root call clears the counter) and the caller's method ends: run_completion
\* releases the lock; run_autonomous_task restores the context and the
\* counter, copies the assistant records and releases the lock.
Return(p) ==
    /\ frame[p].pc = "return"
    /\ LET f == frame[p]
           counter == IF f.is_root_call THEN NoCounter ELSE tool_call_counter
           new_messages == SubSeq(isolated_messages, 2, Len(isolated_messages))
           clones == AssistantClones(new_messages)
           fallback == [Tagged(AssistantRecord(1, << >>, now), "failure")
                           EXCEPT !.autonomous_task = TRUE]
       IN  IF f.op = "autonomous"
           THEN /\ context_is_isolated' = FALSE
                /\ tool_call_counter' = f.original_tool_counter
                /\ messages' = messages \o
                      (IF clones = << >> THEN <<fallback>> ELSE clones)
                /\ isolated_messages' = << >>
                /\ appenders' = appenders \cup {p}
           ELSE /\ tool_call_counter' = counter
                /\ UNCHANGED <<messages, isolated_messages,
                               context_is_isolated, appenders>>
    /\ lock' = None
    /\ frame' = [frame EXCEPT ![p] = IdleFrame]
    /\ SessionFrame
    /\ UNCHANGED <<total_tool_calls, trigger_message,
                   ops_started, handler_runs, last_tool>>

InitSession ==
    /\ messages = << >>
    /\ context_window = MaxWindow
    /\ now = 0
    /\ trimmed = FALSE
    /\ pre_messages = << >>
    /\ aged_kept = {}
    /\ budget_kept = {}
    /\ final_kept = {}
    /\ developer_prompt = "prompt"
    /\ payload = << >>
    /\ InitSessionVars
    /\ workload \in Workloads

\* The session when the tools of a response are tried; the window holds the
\* records of one tool cycle.
InitTools ==
    /\ messages = << >>
    /\ context_window = MaxWindow + MaxCalls
    /\ now = 0
    /\ trimmed = FALSE
    /\ pre_messages = << >>
    /\ aged_kept = {}
    /\ budget_kept = {}
    /\ final_kept = {}
    /\ developer_prompt = "prompt"
    /\ payload = << >>
    /\ InitSessionVars
    /\ workload \in ToolWorkloads

NextSession ==
    \E p \in Callers :
        \/ Call(p)
        \/ ingest_message(p)
        \/ run_completion(p)
        \/ run_autonomous_task(p)
        \/ Enter(p)
        \/ Attachments(p)
        \/ ClientReturns(p)
        \/ ExecuteTool(p)
        \/ Return(p)

SpecSession == InitSession /\ [][NextSession]_vars

SpecTools == InitTools /\ [][NextSession]_vars

\* -------------------------------------------------------------- on_message
\* Several messages arrive, each with an attachment, and the loop is short.
MessageWorkloads ==
    {[ops |-> MaxOps, rounds |-> MaxToolRounds, tools |-> {"search_web"},
      mixed |-> {}, faulty |-> {}, images |-> {0}, failing |-> FALSE,
      attachments |-> {1}]}

\* The User record made from the message that the call p of on_message
\* handles (MessageRecord.discord_message).
RecordOf(p) == Tagged(MessageRecord(1, now), p)

\* Chat.on_message, to the return of gpt_api.ingest_message(message): the
\* User record is appended under the lock; on_message then awaits the
\* history of the channel and the typing indicator.
on_message_ingest(p) ==
    /\ frame[p].pc = "waiting"
    /\ LockFree
    /\ AddToCtx(RecordOf(p))
    /\ appenders' = IF lock = None THEN {p} ELSE appenders \cup {p}
    /\ frame' = [frame EXCEPT ![p].pc = "responding"]
    /\ SessionFrame
    /\ UNCHANGED <<lock, context_is_isolated, tool_call_counter, total_tool_calls,
                   trigger_message, ops_started, handler_runs,
                   last_tool>>

\* Chat.on_message, from gpt_api.run_completion(trigger_message=message):
\* the lock is taken and _run_completion_unsafe(message) is called.
on_message_respond(p) ==
    /\ frame[p].pc = "responding"
    /\ LockFree
    /\ lock' = p
    /\ appenders' = {}
    /\ handler_runs' = ZeroCalls
    /\ last_tool' = NoTool
    /\ frame' = [frame EXCEPT ![p].pc = "enter", ![p].op = "completion",
                              ![p].trigger_message = TRUE]
    /\ SessionFrame
    /\ UNCHANGED <<messages, isolated_messages, context_is_isolated,
                   tool_call_counter, total_tool_calls, trigger_message,
                   ops_started>>

InitMessages ==
    /\ messages = << >>
    /\ context_window = MaxWindow + MaxCalls
    /\ now = 0
    /\ trimmed = FALSE
    /\ pre_messages = << >>
    /\ aged_kept = {}
    /\ budget_kept = {}
    /\ final_kept = {}
    /\ developer_prompt = "prompt"
    /\ payload = << >>
    /\ InitSessionVars
    /\ workload \in MessageWorkloads

NextMessages ==
    \E p \in Callers :
        \/ Call(p)
        \/ on_message_ingest(p)
        \/ on_message_respond(p)
        \/ Enter(p)
        \/ Attachments(p)
        \/ ClientReturns(p)
        \/ ExecuteTool(p)
        \/ Return(p)

SpecMessages == InitMessages /\ [][NextMessages]_vars

\* ------------------------------------------------- profiles in the prompt
ChatFrame == UNCHANGED <<ctxVars, sessVars, schedVars>>

\* get_developer_prompt(): the profile text of the prompt is the attribute
\* _user_profile of the function at the time of the call.
DeveloperPromptProfile(ch) == user_profile

\* Chat.on_message, from the profiles to `async with channel.typing()`: the
\* profile text of the author, of the people mentioned and of the people
\* lately active is put in _user_profile.
on_message(ch, profile) ==
    /\ requests[ch].pc = "idle"
    /\ user_profile' = profile
    /\ requests' = [requests EXCEPT ![ch] =
           [NoRequest EXCEPT !.pc = "calling", !.kind = "message",
                             !.profile = profile]]
    /\ ChatFrame

\* One completion of the session of the channel, to the call of the client:
\* context.developer_prompt is made anew, then the payload.
completion_step(ch) ==
    /\ requests[ch].pc \in {"calling", "completing"}
    /\ requests' = [requests EXCEPT ![ch].pc = "client",
                                    ![ch].prompt = DeveloperPromptProfile(ch),
                                    ![ch].steps = @ + 1]
    /\ UNCHANGED user_profile
    /\ ChatFrame

\* Chat._execute_autonomous_task, from the profile of the owner to the first
\* call of the client: the lock of the session is free, so nothing else
\* runs before the first completion has made its prompt.
execute_autonomous_task(ch, profile) ==
    /\ requests[ch].pc = "idle"
    /\ user_profile' = profile
    /\ requests' = [requests EXCEPT ![ch] =
           [NoRequest EXCEPT !.pc = "client", !.kind = "task",
                             !.profile = profile, !.prompt = profile,
                             !.steps = 1]]
    /\ ChatFrame

\* The client answers: with tool calls, which are run and followed by
\* another completion, or with the text that ends the request. The
\* `finally` of _execute_autonomous_task empties _user_profile.
completion_returns(ch, tool_calls) ==
    /\ requests[ch].pc = "client"
    /\ IF tool_calls /\ requests[ch].steps < MaxSteps
       THEN /\ requests' = [requests EXCEPT ![ch].pc = "completing"]
            /\ UNCHANGED user_profile
       ELSE /\ requests' = [requests EXCEPT ![ch] = NoRequest]
            /\ user_profile' = IF requests[ch].kind = "task" THEN ""
                                ELSE user_profile
    /\ ChatFrame

InitChat ==
    /\ messages = << >>
    /\ context_window = MaxWindow
    /\ now = 0
    /\ trimmed = FALSE
    /\ pre_messages = << >>
    /\ aged_kept = {}
    /\ budget_kept = {}
    /\ final_kept = {}
    /\ developer_prompt = "prompt"
    /\ payload = << >>
    /\ InitSessionVars
    /\ workload = NoWorkload

NextChat ==
    \E ch \in Channels :
        \/ \E profile \in Profiles : on_message(ch, profile)
        \/ \E profile \in Profiles : execute_autonomous_task(ch, profile)
        \/ completion_step(ch)
        \/ \E tool_calls \in BOOLEAN : completion_returns(ch, tool_calls)

SpecChat == InitChat /\ [][NextChat]_vars

\* ------------------------------------------------------------------ forget
\* Several calls are made and the loop is short.
ForgetWorkloads ==
    {[ops |-> MaxOps, rounds |-> MaxToolRounds, tools |-> {"search_web"},
      mixed |-> {}, faulty |-> {}, images |-> {0}, failing |-> FALSE,
      attachments |-> {0, 1}]}

\* ChannelSession.forget: self.context.clear(), on the context the session
\* is using, with no lock taken.
forget ==
    /\ Ctx # << >>
    /\ SetCtx(<< >>)
    /\ SessionFrame
    /\ UNCHANGED <<lock, context_is_isolated, tool_call_counter,
                   total_tool_calls, trigger_message, frame, ops_started,
                   handler_runs, last_tool, appenders>>

InitForget ==
    /\ messages = << >>
    /\ context_window = MaxWindow
    /\ now = 0
    /\ trimmed = FALSE
    /\ pre_messages = << >>
    /\ aged_kept = {}
    /\ budget_kept = {}
    /\ final_kept = {}
    /\ developer_prompt = "prompt"
    /\ payload = << >>
    /\ InitSessionVars
    /\ workload \in ForgetWorkloads

NextForget == NextSession \/ forget

SpecForget == InitForget /\ [][NextForget]_vars

\* ------------------------------------------- failures of the completion client
\* The errors create_completion raises: one whose text holds
\* 'invalid_image_url', and any other.
ClientErrors == {"invalid_image_url", "other"}

contains_image(m) == m.images > 0

filter_images_Kept(msgs) == msgs

\* ConversationContext.filter_images: every record loses its Image
\* components, and their tokens.
filter_images(msgs) ==
    [i \in DOMAIN msgs |->
        [msgs[i] EXCEPT !.images = 0,
                        !.tokens = @ - msgs[i].images * MaxImageTok]]

\* client.create_completion raises.  The API reports an invalid image only
\* for a payload that holds one.  The first call of a completion that fails
\* so is answered by filter_images, prepare_payload and a second call; any
\* other failure leaves _run_completion_unsafe as an exception.
ClientFails(p) ==
    /\ frame[p].pc \in {"client", "retry"}
    /\ workload.failing
    /\ \E e \in ClientErrors :
         /\ e = "invalid_image_url" =>
               \E i \in DOMAIN Ctx : contains_image(Ctx[i])
         /\ IF frame[p].pc = "client" /\ e = "invalid_image_url"
            THEN /\ SetCtx(Prepared(filter_images(Ctx)))
                 /\ frame' = [frame EXCEPT
                        ![p].pc = "retry",
                        ![p].completions = frame[p].completions + 1]
            ELSE /\ frame' = [frame EXCEPT ![p].pc = "raise",
                                           ![p].result = e]
                 /\ UNCHANGED <<messages, isolated_messages>>
    /\ SessionFrame
    /\ UNCHANGED <<lock, context_is_isolated, tool_call_counter,
                   total_tool_calls, trigger_message, ops_started,
                   handler_runs, last_tool, appenders>>

\* The `finally` of _run_completion_unsafe, in the frame f whose call is
\* left by an exception: the counter of a root call is None again.
CounterAfterRaise_Kept(f) == tool_call_counter
CounterAfterRaise(f) == IF f.is_root_call THEN NoCounter ELSE tool_call_counter

\* The exception leaves the call: the finally clauses reset the counter of a
\* root call and restore the context an autonomous run replaced, the lock
\* is released, and the caller gets the exception.
Raise(p) ==
    /\ frame[p].pc = "raise"
    /\ LET f == frame[p]
       IN  IF f.op = "autonomous"
           THEN /\ context_is_isolated' = FALSE
                /\ tool_call_counter' = f.original_tool_counter
                /\ isolated_messages' = << >>
           ELSE /\ tool_call_counter' = CounterAfterRaise(f)
                /\ UNCHANGED <<isolated_messages, context_is_isolated>>
    /\ lock' = None
    /\ frame' = [frame EXCEPT ![p] = IdleFrame]
    /\ SessionFrame
    /\ UNCHANGED <<messages, total_tool_calls, trigger_message, ops_started,
                   handler_runs, last_tool, appenders>>

\* The session when messages hold images and the client may fail.
InitImages ==
    /\ messages = << >>
    /\ context_window = MaxWindow + MaxCalls
    /\ now = 0
    /\ trimmed = FALSE
    /\ pre_messages = << >>
    /\ aged_kept = {}
    /\ budget_kept = {}
    /\ final_kept = {}
    /\ developer_prompt = "prompt"
    /\ payload = << >>
    /\ InitSessionVars
    /\ workload \in ImageWorkloads

NextImages ==
    \E p \in Callers :
        \/ Call(p)
        \/ ingest_message(p)
        \/ run_completion(p)
        \/ run_autonomous_task(p)
        \/ Enter(p)
        \/ Attachments(p)
        \/ ClientReturns(p)
        \/ ClientFails(p)
        \/ ExecuteTool(p)
        \/ Return(p)
        \/ Raise(p)

SpecImages == InitImages /\ [][NextImages]_vars

\* -------------------------------------------------------- the scheduler
\* cogs/chat/scheduler.py.  A row of scheduled_tasks is modelled by its id,
\* its user_id, its execute_at as the text stored in the column, and its
\* status.  The clock ticks TicksPerSecond times a second, and the period
\* modelled is short of the day after which the worker purges old rows.
Users == {1, 2}
\* user_id is None
NoUser == 0
TicksPerSecond == 2
Statuses == {"pending", "completed", "failed", "cancelled"}
Terminal == Statuses \ {"pending"}

\* The codes of the characters of a stored time.
Digit(d) == 48 + d
PlusSign == 43
Dot == 46
Colon == 58

LetterT == 84
TicksPerDay == 86400 * TicksPerSecond

\* datetime.isoformat() of a time in UTC: the day, "T", the hours, the
\* minutes, the seconds, the fraction of a second unless it is zero, and the
\* offset "+00:00".
isoformat(t) ==
    LET secs == t \div TicksPerSecond
        day == secs \div 86400
        hour == (secs % 86400) \div 3600
        min == (secs % 3600) \div 60
        sec == secs % 60
        frac == t % TicksPerSecond
    IN  <<Digit(day \div 10), Digit(day % 10), LetterT,
          Digit(hour \div 10), Digit(hour % 10), Colon,
          Digit(min \div 10), Digit(min % 10), Colon,
          Digit(sec \div 10), Digit(sec % 10)>>
        \o (IF frac = 0 THEN << >>
            ELSE <<Dot, Digit((frac * 10) \div TicksPerSecond)>>)
        \o <<PlusSign, Digit(0), Digit(0), Colon, Digit(0), Digit(0)>>

\* datetime.fromisoformat()
fromisoformat(s) ==
    LET day == (s[1] - 48) * 10 + (s[2] - 48)
        hour == (s[4] - 48) * 10 + (s[5] - 48)
        min == (s[7] - 48) * 10 + (s[8] - 48)
        sec == (s[10] - 48) * 10 + (s[11] - 48)
        frac == IF s[12] = Dot THEN ((s[13] - 48) * TicksPerSecond) \div 10 ELSE 0
    IN  (((day * 24 + hour) * 60 + min) * 60 + sec) * TicksPerSecond + frac

\* a <= b on two TEXT values in SQLite: the bytes are compared, and a
\* proper prefix comes first.
RECURSIVE TextLeq(_, _)
TextLeq(a, b) ==
    IF a = << >> THEN TRUE
    ELSE IF b = << >> THEN FALSE
    ELSE IF Head(a) # Head(b) THEN Head(a) < Head(b)
    ELSE TextLeq(Tail(a), Tail(b))

\* INSERT INTO scheduled_tasks ... VALUES (..., 'pending', ...)
add_task(rows, channel_id, user_id, task_description, execute_at, message_id) ==
    Append(rows, [id |-> Len(rows) + 1, channel_id |-> channel_id,
                  user_id |-> user_id, task_description |-> task_description,
                  execute_at |-> isoformat(execute_at), status |-> "pending",
                  message_id |-> message_id])

\* UPDATE scheduled_tasks SET status = ? WHERE id = ?
update_task_status(rows, task_id, status) ==
    [i \in DOMAIN rows |->
        IF rows[i].id = task_id THEN [rows[i] EXCEPT !.status = status]
        ELSE rows[i]]

Due_AnyStatus(row, t) == TextLeq(row.execute_at, isoformat(t))

\* WHERE status = 'pending' AND execute_at <= ?
Due(row, t) ==
    row.status = "pending" /\ TextLeq(row.execute_at, isoformat(t))

ScheduledTask(row) ==
    [id |-> row.id, channel_id |-> row.channel_id, user_id |-> row.user_id,
     task_description |-> row.task_description,
     execute_at |-> fromisoformat(row.execute_at), status |-> row.status,
     message_id |-> row.message_id]

\* Only the first of the due rows is returned.
get_pending_tasks_OnlyFirst(rows, t) ==
    LET D == {i \in DOMAIN rows : Due(rows[i], t)}
    IN  IF D = {} THEN {<< >>}
        ELSE {<<ScheduledTask(rows[i])>> :
                 i \in {j \in D : \A k \in D :
                            TextLeq(rows[j].execute_at, rows[k].execute_at)}}

\* TaskDatabase.get_pending_tasks(): the lists it may return.  ORDER BY
\* execute_at ASC leaves the order of rows with equal execute_at open.
get_pending_tasks(rows, t) ==
    LET D == {i \in DOMAIN rows : Due(rows[i], t)}
        n == Cardinality(D)
        Ordered(g) ==
            \A a, b \in 1..n :
                a < b => /\ g[a] # g[b]
                         /\ TextLeq(rows[g[a]].execute_at, rows[g[b]].execute_at)
    IN  {[k \in 1..n |-> ScheduledTask(rows[g[k]])] :
            g \in {h \in [1..n -> D] : Ordered(h)}}

CancelMatches_AnyOwner(row, task_id, user_id) ==
    row.id = task_id /\ row.status = "pending"

\* WHERE id = ? AND user_id = ? AND status = 'pending', without the test of
\* user_id when user_id is None.
CancelMatches(row, task_id, user_id) ==
    /\ row.id = task_id
    /\ user_id # NoUser => row.user_id = user_id
    /\ row.status = "pending"

SchedulerFrame == UNCHANGED <<messages, context_window, trimmed, pre_messages,
                              aged_kept, budget_kept, final_kept,
                              developer_prompt, payload, sessVars, chatVars>>

\* No value returned by the database is waiting to be taken by its caller.
NothingReturned ==
    /\ cancel_result = NoCancel
    /\ pending_result = NoPending
    /\ schedule_result = NoSchedule

\* What the schedule_task tool passes for a trigger message of the user:
\* the channel and the id of the message, and the description asked for.
Request(user_id) ==
    [channel_id |-> 10 + user_id, user_id |-> user_id,
     task_description |-> IF user_id = 1 THEN "remind" ELSE "report",
     message_id |-> 100 + user_id]

\* TaskScheduler.schedule_task
schedule_task(rq, execute_at) ==
    /\ NothingReturned
    /\ Len(scheduled_tasks) < MaxTasks
    /\ scheduled_tasks' = add_task(scheduled_tasks, rq.channel_id, rq.user_id,
                                   rq.task_description, execute_at,
                                   rq.message_id)
    /\ SchedulerFrame
    /\ UNCHANGED <<now, running, worker, executor_calls, cancel_result,
                   pending_result, schedule_result, cancelled_ok, starts>>

\* TaskDatabase.cancel_task: the UPDATE and the value returned.
CancelUpdate(task_id, user_id) ==
    LET affected == {i \in DOMAIN scheduled_tasks :
                        CancelMatches(scheduled_tasks[i], task_id, user_id)}
    IN  /\ NothingReturned
        /\ scheduled_tasks' =
               [i \in DOMAIN scheduled_tasks |->
                   IF i \in affected
                   THEN [scheduled_tasks[i] EXCEPT !.status = "cancelled"]
                   ELSE scheduled_tasks[i]]
        /\ cancel_result' = [task_id |-> task_id, user_id |-> user_id,
                             returned |-> affected # {}]
        /\ SchedulerFrame
        /\ UNCHANGED <<now, running, worker, executor_calls, pending_result,
                       schedule_result, starts>>

\* TaskScheduler.cancel_task, as the program calls it while the worker runs.
cancel_task(task_id, user_id) ==
    /\ CancelUpdate(task_id, user_id)
    /\ cancelled_ok' = IF cancel_result'.returned
                       THEN cancelled_ok \cup {task_id} ELSE cancelled_ok

\* The caller of cancel_task or get_pending_tasks takes the value returned.
Returned ==
    /\ ~NothingReturned
    /\ cancel_result' = NoCancel
    /\ pending_result' = NoPending
    /\ schedule_result' = NoSchedule
    /\ SchedulerFrame
    /\ UNCHANGED <<now, scheduled_tasks, running, worker, executor_calls,
                   cancelled_ok, starts>>

\* TaskScheduler.start_worker.  It is not called while stop_worker awaits
\* the worker task: the program starts the worker once, in cog_load, and
\* stops it once, in cog_unload.
AlreadyRunning_Ignored == FALSE

\* `if self._running` of start_worker.
AlreadyRunning == running

start_worker ==
    /\ NothingReturned
    /\ ~worker.stop_awaits
    /\ starts < MaxStarts
    /\ IF AlreadyRunning
       THEN UNCHANGED <<running, worker, starts>>
       ELSE /\ running' = TRUE
            /\ worker' = [NoWorker EXCEPT !.pc = "created"]
            /\ starts' = starts + 1
    /\ SchedulerFrame
    /\ UNCHANGED <<now, scheduled_tasks, executor_calls, cancel_result,
                   pending_result, schedule_result, cancelled_ok>>

\* stop_worker returns without awaiting the worker task.
WorkerTask_NotAwaited(swallowed) ==
    IF swallowed /\ worker.pc = "executing" THEN worker ELSE NoWorker

\* self._worker_task.cancel() and `await self._worker_task`: the worker task
\* ends, or it goes on and stop_worker awaits it when the executor caught
\* the CancelledError thrown into it (swallowed).
WorkerTask(swallowed) ==
    IF swallowed /\ worker.pc = "executing"
    THEN [worker EXCEPT !.stop_awaits = TRUE]
    ELSE NoWorker

\* TaskScheduler.stop_worker, from its call to its await and, when the worker
\* task ends on the cancellation, to its return.  The task is cancelled where
\* it waits: in asyncio.sleep, or in the executor.  CancelledError is not an
\* Exception, so it ends _worker_loop, unless the executor waits in one of
\* its `try: await ... except:` and catches it (swallowed): then the worker
\* goes on with _running False.  One call of stop_worker is made at a time.
stop_worker ==
    /\ NothingReturned
    /\ ~worker.stop_awaits
    /\ IF ~running
       THEN UNCHANGED <<running, worker>>
       ELSE /\ running' = FALSE
            /\ \E swallowed \in BOOLEAN : worker' = WorkerTask(swallowed)
    /\ SchedulerFrame
    /\ UNCHANGED <<now, scheduled_tasks, executor_calls, cancel_result,
                   pending_result, schedule_result, cancelled_ok, starts>>

\* await self.executor(task.channel_id, task.user_id, task.task_description,
\* task.message_id)
ExecutorArgs(task) ==
    [channel_id |-> task.channel_id, user_id |-> task.user_id,
     task_description |-> task.task_description,
     message_id |-> task.message_id]

\* _worker_loop, from `while self._running` to its first await: the due
\* tasks are fetched and the executor is awaited for the first of them, or
\* the loop sleeps when there is none.
worker_loop ==
    /\ NothingReturned
    /\ worker.pc \in {"created", "sleeping"}
    /\ running
    /\ \E pt \in get_pending_tasks(scheduled_tasks, now) :
          /\ pending_result' = [called |-> TRUE, tasks |-> pt]
          /\ IF pt = << >>
             THEN /\ worker' = [worker EXCEPT !.pc = "sleeping",
                                              !.pending_tasks = << >>,
                                              !.i = 0, !.call = NoCall]
                  /\ UNCHANGED executor_calls
             ELSE /\ worker' = [worker EXCEPT !.pc = "executing",
                                              !.pending_tasks = pt, !.i = 1,
                                              !.call = ExecutorArgs(pt[1])]
                  /\ executor_calls' =
                         [executor_calls EXCEPT ![pt[1].id] = @ + 1]
    /\ SchedulerFrame
    /\ UNCHANGED <<now, scheduled_tasks, running, cancel_result, schedule_result,
                   cancelled_ok, starts>>

\* A failure of the executor ends the loop over the due tasks.
NextTask_StopOnFailure(raised) ==
    IF raised THEN Len(worker.pending_tasks) + 1 ELSE worker.i + 1

\* `for task in pending_tasks`: the index of the task taken after the
\* executor returned or raised.
NextTask(raised) == worker.i + 1

\* _worker_loop, from the end of the executor to the next await: the status
\* of the task is written, then the executor is awaited for the next task
\* of the list or the loop sleeps.
executor_done(raised) ==
    LET next == NextTask(raised)
    IN  /\ NothingReturned
        /\ worker.pc = "executing"
        /\ scheduled_tasks' =
               update_task_status(scheduled_tasks,
                                  worker.pending_tasks[worker.i].id,
                                  IF raised THEN "failed" ELSE "completed")
        /\ IF next <= Len(worker.pending_tasks)
           THEN /\ worker' = [worker EXCEPT
                                 !.i = next,
                                 !.call = ExecutorArgs(worker.pending_tasks[next]),
                                 !.outcome = IF raised THEN "raised"
                                             ELSE "returned"]
                /\ executor_calls' =
                       [executor_calls EXCEPT
                           ![worker.pending_tasks[next].id] = @ + 1]
           ELSE /\ worker' = [worker EXCEPT
                                 !.pc = "sleeping", !.pending_tasks = << >>,
                                 !.i = 0, !.call = NoCall,
                                 !.outcome = IF raised THEN "raised"
                                             ELSE "returned"]
                /\ UNCHANGED executor_calls
        /\ SchedulerFrame
        /\ UNCHANGED <<now, running, cancel_result, pending_result, schedule_result,
                       cancelled_ok, starts>>

\* _worker_loop, when asyncio.sleep ends and self._running is False: the
\* loop and the worker task end, and the stop_worker awaiting it returns.
worker_exit ==
    /\ NothingReturned
    /\ worker.pc = "sleeping"
    /\ ~running
    /\ worker' = NoWorker
    /\ SchedulerFrame
    /\ UNCHANGED <<now, scheduled_tasks, running, executor_calls,
                   cancel_result, pending_result, schedule_result,
                   cancelled_ok, starts>>

\* Time passes.
Elapse ==
    /\ NothingReturned
    /\ now < MaxSchedClock
    /\ now' = now + 1
    /\ SchedulerFrame
    /\ UNCHANGED schedVars

InitScheduler ==
    /\ messages = << >>
    /\ context_window = MaxWindow
    /\ now = 0
    /\ trimmed = FALSE
    /\ pre_messages = << >>
    /\ aged_kept = {}
    /\ budget_kept = {}
    /\ final_kept = {}
    /\ developer_prompt = "prompt"
    /\ payload = << >>
    /\ InitSessionVars
    /\ workload = NoWorkload

NextScheduler ==
    \/ \E user_id \in Users, execute_at \in (now + 1)..(MaxSchedClock + 1) :
          schedule_task(Request(user_id), execute_at)
    \/ \E task_id \in 1..MaxTasks, user_id \in Users \cup {NoUser} :
          cancel_task(task_id, user_id)
    \/ Returned
    \/ start_worker
    \/ stop_worker
    \/ worker_loop
    \/ \E raised \in BOOLEAN : executor_done(raised)
    \/ worker_exit
    \/ Elapse

SpecScheduler == InitScheduler /\ [][NextScheduler]_vars

\* ------------------------------------------- the worker on its own
\* The worker and the tasks scheduled for it, when nobody cancels a task.
NextWorker ==
    \/ \E user_id \in Users, execute_at \in (now + 1)..(MaxSchedClock + 1) :
          schedule_task(Request(user_id), execute_at)
    \/ Returned
    \/ start_worker
    \/ stop_worker
    \/ worker_loop
    \/ \E raised \in BOOLEAN : executor_done(raised)
    \/ worker_exit
    \/ Elapse

SpecWorker == InitScheduler /\ [][NextWorker]_vars

\* ------------------------------------------- the worker that keeps running
\* The worker is started and never stopped, and one user schedules the
\* tasks.  asyncio.sleep(30) ends, the
\* calls of the database return and the executor returns or raises: the
\* steps of the loop are taken when they stay possible.
NextLive ==
    \/ \E execute_at \in (now + 1)..(MaxSchedClock + 1) :
          schedule_task(Request(1), execute_at)
    \/ Returned
    \/ start_worker
    \/ worker_loop
    \/ \E raised \in BOOLEAN : executor_done(raised)
    \/ Elapse

SpecLive ==
    /\ InitScheduler
    /\ [][NextLive]_vars
    /\ WF_vars(Returned)
    /\ WF_vars(worker_loop)
    /\ WF_vars(\E raised \in BOOLEAN : executor_done(raised))

\* ----------------------------------------- the database on its own
\* TaskDatabase.cancel_task
db_cancel_task(task_id, user_id) ==
    /\ CancelUpdate(task_id, user_id)
    /\ UNCHANGED cancelled_ok

\* TaskDatabase.get_pending_tasks
fetch_pending_tasks ==
    /\ NothingReturned
    /\ \E pt \in get_pending_tasks(scheduled_tasks, now) :
          pending_result' = [called |-> TRUE, tasks |-> pt]
    /\ SchedulerFrame
    /\ UNCHANGED <<now, scheduled_tasks, running, worker, executor_calls,
                   cancel_result, schedule_result, cancelled_ok, starts>>

\* TaskDatabase.update_task_status, with a status the worker passes.
set_task_status(task_id, status) ==
    /\ NothingReturned
    /\ scheduled_tasks' = update_task_status(scheduled_tasks, task_id, status)
    /\ SchedulerFrame
    /\ UNCHANGED <<now, running, worker, executor_calls, cancel_result,
                   pending_result, schedule_result, cancelled_ok, starts>>

NextDatabase ==
    \/ \E user_id \in Users, execute_at \in 0..(MaxSchedClock + 1) :
          schedule_task(Request(user_id), execute_at)
    \/ \E task_id \in 1..MaxTasks, user_id \in Users \cup {NoUser} :
          db_cancel_task(task_id, user_id)
    \/ Returned
    \/ fetch_pending_tasks
    \/ \E task_id \in 1..MaxTasks : set_task_status(task_id, "completed")
    \/ Elapse

SpecDatabase == InitScheduler /\ [][NextDatabase]_vars

\* --------------------------------------------------------------- the purge
\* a < b on two TEXT values in SQLite.
TextLess(a, b) == TextLeq(a, b) /\ a # b

\* The row that INSERT writes, with its column created_at.
WithCreatedAt(rows, t) ==
    [rows EXCEPT ![Len(rows)] =
        [f \in DOMAIN rows[Len(rows)] \cup {"created_at"} |->
            IF f = "created_at" THEN isoformat(t) ELSE rows[Len(rows)][f]]]

\* The place of a deleted row: AUTOINCREMENT gives its id to no other row.
NoRow == [id |-> NoId, status |-> "deleted"]

\* datetime.now(timezone.utc).replace(hour=0, minute=0, second=0,
\* microsecond=0) - timedelta(days=days)
Cutoff(t, days) == (t - (t % TicksPerDay)) - (days * TicksPerDay)

Purged_AnyStatus(row, t) ==
    /\ row # NoRow
    /\ TextLess(row.created_at, isoformat(Cutoff(t, 1)))

\* WHERE status IN ('completed', 'failed', 'cancelled') AND created_at < ?
Purged(row, t) ==
    /\ row.status \in {"completed", "failed", "cancelled"}
    /\ TextLess(row.created_at, isoformat(Cutoff(t, 1)))

\* TaskDatabase.cleanup_old_tasks(): DELETE FROM scheduled_tasks WHERE ...
cleanup_old_tasks ==
    /\ scheduled_tasks' =
           [i \in DOMAIN scheduled_tasks |->
               IF Purged(scheduled_tasks[i], now) THEN NoRow
               ELSE scheduled_tasks[i]]
    /\ SchedulerFrame
    /\ UNCHANGED <<now, running, worker, executor_calls, cancel_result,
                   pending_result, schedule_result, cancelled_ok, starts>>

\* TaskDatabase.add_task, with the time of the insertion.
dated_add_task(rq, execute_at) ==
    /\ Len(scheduled_tasks) < MaxTasks
    /\ scheduled_tasks' =
           WithCreatedAt(add_task(scheduled_tasks, rq.channel_id, rq.user_id,
                                  rq.task_description, execute_at,
                                  rq.message_id), now)
    /\ SchedulerFrame
    /\ UNCHANGED <<now, running, worker, executor_calls, cancel_result,
                   pending_result, schedule_result, cancelled_ok, starts>>

\* The instants tried: midnight, half a second after it and half a second
\* before the next one, of each day.
PurgeInstants ==
    {d * TicksPerDay + o : d \in 1..MaxDays, o \in {0, 1, TicksPerDay - 1}}

\* Time passes, up to days.
PurgeElapse ==
    /\ \E t \in PurgeInstants : t > now /\ now' = t
    /\ SchedulerFrame
    /\ UNCHANGED schedVars

InitPurge ==
    /\ messages = << >>
    /\ context_window = MaxWindow
    /\ now = TicksPerDay
    /\ trimmed = FALSE
    /\ pre_messages = << >>
    /\ aged_kept = {}
    /\ budget_kept = {}
    /\ final_kept = {}
    /\ developer_prompt = "prompt"
    /\ payload = << >>
    /\ InitSessionVars
    /\ workload = NoWorkload

NextPurge ==
    \/ \E execute_at \in {now + 1, now + TicksPerDay} :
          dated_add_task(Request(1), execute_at)
    \/ \E task_id \in 1..MaxTasks, status \in Terminal :
          set_task_status(task_id, status)
    \/ cleanup_old_tasks
    \/ PurgeElapse

SpecPurge == InitPurge /\ [][NextPurge]_vars

\* ------------------------------------- the scheduling tools of the cog
\* cogs/chat/chat.py.  A tool handler runs from its call to its return
\* without an await, so no other coroutine runs in between.

\* SELECT COUNT(*) FROM scheduled_tasks WHERE user_id = ? AND status = 'pending'
count_pending_user_tasks(rows, user_id) ==
    Cardinality({i \in DOMAIN rows :
                    rows[i].user_id = user_id /\ rows[i].status = "pending"})

QuotaReached_OneLate(pending_count) == pending_count > MAX_PENDING_TASKS

\* if pending_count >= 10
QuotaReached(pending_count) == pending_count >= MAX_PENDING_TASKS

\* timedelta(minutes=total_minutes), in clock ticks
timedelta(total_minutes) == total_minutes * 60 * TicksPerSecond

\* The rows of the table that are not pending.
Ended == {i \in DOMAIN scheduled_tasks : scheduled_tasks[i].status # "pending"}

\* Chat._tool_schedule_task, called with a trigger message of the user and
\* a description: the response is an error when the user has reached the
\* quota or the delay is too short, else a row is inserted.
tool_schedule_task(rq, total_minutes) ==
    LET pending_count == count_pending_user_tasks(scheduled_tasks, rq.user_id)
        others == {i \in DOMAIN scheduled_tasks :
                      scheduled_tasks[i].user_id # 1}
    IN  /\ NothingReturned
        /\ IF QuotaReached(pending_count)
           THEN /\ schedule_result' = [user_id |-> rq.user_id,
                                       error |-> "limit", task_id |-> NoId]
                /\ UNCHANGED scheduled_tasks
           ELSE IF total_minutes < MIN_DELAY_MINUTES
           THEN /\ schedule_result' = [user_id |-> rq.user_id,
                                       error |-> "delay", task_id |-> NoId]
                /\ UNCHANGED scheduled_tasks
           ELSE /\ Len(scheduled_tasks) < MaxQuotaTasks
                /\ rq.user_id # 1 => Cardinality(others) < MaxOthers
                /\ scheduled_tasks' =
                       add_task(scheduled_tasks, rq.channel_id, rq.user_id,
                                rq.task_description,
                                now + timedelta(total_minutes), rq.message_id)
                /\ schedule_result' = [user_id |-> rq.user_id, error |-> None,
                                       task_id |-> Len(scheduled_tasks) + 1]
        /\ SchedulerFrame
        /\ UNCHANGED <<now, running, worker, executor_calls, cancel_result,
                       pending_result, cancelled_ok, starts>>

\* Chat._tool_cancel_scheduled_task, called with a trigger message of the
\* user: cancel_task(task_id, user_id=trigger_message.author.id).
tool_cancel_scheduled_task(task_id, user_id) ==
    /\ NothingReturned
    /\ Cardinality(Ended) < MaxEnded
    /\ scheduled_tasks' =
           [i \in DOMAIN scheduled_tasks |->
               IF CancelMatches(scheduled_tasks[i], task_id, user_id)
               THEN [scheduled_tasks[i] EXCEPT !.status = "cancelled"]
               ELSE scheduled_tasks[i]]
    /\ SchedulerFrame
    /\ UNCHANGED <<now, running, worker, executor_calls, cancel_result,
                   pending_result, schedule_result, cancelled_ok, starts>>

\* The worker writes the status of a task it executed.
task_executed(task_id, status) ==
    /\ task_id \in Ended \/ Cardinality(Ended) < MaxEnded
    /\ set_task_status(task_id, status)

NextQuota ==
    \/ \E user_id \in Users, total_minutes \in {1, MIN_DELAY_MINUTES} :
          tool_schedule_task(Request(user_id), total_minutes)
    \/ \E task_id \in 1..MaxQuotaTasks, user_id \in Users :
          tool_cancel_scheduled_task(task_id, user_id)
    \/ \E task_id \in 1..MaxQuotaTasks, status \in {"completed", "failed"} :
          task_executed(task_id, status)
    \/ Returned

SpecQuota == InitScheduler /\ [][NextQuota]_vars

\* ===================================================================
\* Properties of ConversationContext.trim(), checked under SpecContext
\* ===================================================================

\* The list left by the age step of the last trim().
Aged == SubSeqBy(pre_messages, aged_kept)

\* No call id is listed by two AssistantRecords of s.
UniqueIds(s) ==
    \A i, j \in DOMAIN s : i # j => CallIds(s[i]) \cap CallIds(s[j]) = {}

\* The AssistantRecord at j of the aged list lacks, among the records the
\* budget step kept, a tool response for one of its call ids.
PartlyAnswered(j) ==
    /\ HasCalls(Aged[j])
    /\ \E id \in CallIds(Aged[j]) :
          ~\E i \in budget_kept : Aged[i].role = "tool" /\ Aged[i].tool_call_id = id

\* C1: after trim() with a positive window W the stored records cost at most
\* W tokens in total, unless the newest record alone costs more than W, and
\* then that record is the only one left.
C1_BudgetOrOnlyNewest ==
    (trimmed /\ context_window > 0) =>
        \/ SumTokens(messages) <= context_window
        \/ /\ Aged # << >>
           /\ token_count(Aged[Len(Aged)]) > context_window
           /\ final_kept = {Len(Aged)}

\* C2: after trim(), when no call id is listed by two AssistantRecords, every
\* tool response left follows an AssistantRecord listing its call id, every
\* AssistantRecord left has a tool response left for each of its call ids,
\* and a partly answered AssistantRecord is gone with all its tool responses.
C2_Pairing ==
    (trimmed /\ UniqueIds(pre_messages)) =>
        /\ \A i \in DOMAIN messages :
              messages[i].role = "tool" =>
                \E j \in 1..(i - 1) :
                    /\ HasCalls(messages[j])
                    /\ messages[i].tool_call_id \in CallIds(messages[j])
        /\ \A j \in DOMAIN messages :
              \A id \in CallIds(messages[j]) :
                \E i \in DOMAIN messages :
                    messages[i].role = "tool" /\ messages[i].tool_call_id = id
        /\ \A j \in budget_kept :
              PartlyAnswered(j) =>
                /\ j \notin final_kept
                /\ \A i \in final_kept :
                      Aged[i].role = "tool" =>
                        Aged[i].tool_call_id \notin CallIds(Aged[j])

\* C2 witness: a trim() that met a partly answered AssistantRecord together
\* with one of its tool responses, and one that left a complete group.
C2_Witness ==
    /\ trimmed /\ UniqueIds(pre_messages)
    /\ \E j \in budget_kept :
          /\ PartlyAnswered(j)
          /\ \E i \in budget_kept :
                /\ i > j
                /\ Aged[i].role = "tool"
                /\ Aged[i].tool_call_id \in CallIds(Aged[j])

\* C3: the records kept by the token-budget step of trim() are a contiguous
\* suffix of the list it was given.
C3_BudgetKeepsSuffix ==
    trimmed => \E k \in 0..Len(Aged) : budget_kept = (k + 1)..Len(Aged)

\* C4: when a record younger than the maximum age exists, the most recent
\* one is still stored after trim().
C4_NewestSurvives ==
    (trimmed /\ aged_kept # {}) => Len(Aged) \in final_kept

\* C5: after trim() no stored record has reached the maximum age, and every
\* record the age step removed had reached it.
C5_Age ==
    trimmed =>
        /\ \A i \in DOMAIN messages :
              ~(now - messages[i].created_at >= DEFAULT_CONTEXT_AGE)
        /\ \A i \in DOMAIN pre_messages \ aged_kept :
              now - pre_messages[i].created_at >= DEFAULT_CONTEXT_AGE

\* C5 witness: a trim() whose age step removed a record and kept another.
C5_Witness ==
    /\ trimmed
    /\ aged_kept # {}
    /\ aged_kept # DOMAIN pre_messages
    /\ messages # << >>

\* C6 as stated: for any record sequence, trim() applied to the result of
\* trim(), at the same time, leaves it unchanged.
C6_Idempotent ==
    trimmed =>
        TrimResult(messages, now, context_window, DEFAULT_CONTEXT_AGE) = messages

\* C6 amended: the same, for record sequences in which no call id is listed
\* by two AssistantRecords.
C6_IdempotentUniqueIds ==
    (trimmed /\ UniqueIds(pre_messages)) =>
        TrimResult(messages, now, context_window, DEFAULT_CONTEXT_AGE) = messages

\* C6 witness: a trim() that removed records for each of its three reasons
\* and left some.
C6_Witness ==
    /\ trimmed /\ UniqueIds(pre_messages)
    /\ aged_kept # DOMAIN pre_messages
    /\ final_kept # budget_kept
    /\ messages # << >>

\* ===================================================================
\* Properties of ChannelSession, checked under SpecSession
\* ===================================================================

\* The callers that are inside ingest_message, run_completion or
\* run_autonomous_task, past `async with self._lock`.
Executing == {p \in Callers : frame[p].pc \notin {"idle", "waiting"}}

\* The last record of the context the session is using.
LastRecord == Ctx[Len(Ctx)]

\* The number of tool handlers invoked since the top-level call began.
HandlersRun ==
    handler_runs["schedule_task"] + handler_runs["search_web"]
        + handler_runs["unknown_tool"]

\* C7: at most one of ingest_message, run_completion and run_autonomous_task
\* is executing on a session at any time, the one that holds the lock, and
\* while it executes no other caller appends a record.
C7_MutualExclusion ==
    /\ Cardinality(Executing) <= 1
    /\ \A p \in Callers : p \in Executing <=> lock = p
    /\ lock # None => appenders \subseteq {lock}

\* C7 witness: a caller waits at the lock while another, which holds it, has
\* appended the records of a completion with tool calls.
C7_Witness ==
    \E p, q \in Callers :
        /\ p # q
        /\ lock = p
        /\ frame[q].pc = "waiting"
        /\ frame[p].pc = "enter" /\ frame[p].recursion_depth = 1
        /\ appenders = {p}
        /\ last_tool.outcome = "executed"

C9_ToolCallCeiling ==
    /\ total_tool_calls <= max_tool_calls_per_completion
    /\ HandlersRun <= max_tool_calls_per_completion

\* C10: within one top-level completion the schedule_task handler runs at
\* most 5 times; a schedule_task call after the 5th is not run and gets a
\* ToolResponseRecord with its call id that reports the limit; and a
\* top-level completion starts with the count at zero.
C10_ScheduleTaskLimit ==
    /\ handler_runs["schedule_task"] <= SCHEDULE_TASK_LIMIT
    /\ (last_tool.function_name = "schedule_task"
           /\ tool_call_counter.calls["schedule_task"] > SCHEDULE_TASK_LIMIT)
         => last_tool.outcome = "refused"
    /\ last_tool.outcome = "refused" =>
         /\ last_tool.function_name = "schedule_task"
         /\ handler_runs["schedule_task"] = SCHEDULE_TASK_LIMIT
         /\ \A p \in Callers :
               frame[p].pc \in {"tools", "enter"} =>
                  /\ LastRecord.role = "tool"
                  /\ LastRecord.tool_call_id = last_tool.id
                  /\ LastRecord.tag = "schedule_limit"
    /\ \A p \in Callers :
         (frame[p].pc \in {"attachments", "client"} /\ frame[p].recursion_depth = 0)
            => tool_call_counter.calls["schedule_task"] = 0
    /\ lock = None => tool_call_counter.is_none

\* C10 witness: after a top-level completion in which a schedule_task call
\* was refused, the first schedule_task call of the next one is run.
C10_Witness ==
    /\ schedule_limit_hit
    /\ ops_started = 2
    /\ last_tool.function_name = "schedule_task"
    /\ last_tool.outcome = "executed"
    /\ handler_runs["schedule_task"] = 1
    /\ tool_call_counter.calls["schedule_task"] = 1

\* The caller whose completion cycle made two completion calls, the first
\* answered by calls of registered tools and the second by a text, is about
\* to return.
TwoStepCycle(p) ==
    /\ frame[p].pc = "return"
    /\ frame[p].completions = 2
    /\ frame[p].result = "final"
    /\ frame[p].requested # << >>
    /\ \A i \in DOMAIN frame[p].requested :
          frame[p].requested[i].function_name \in Registered

\* The context ends with the AssistantRecord of the calls, one tool response
\* per call in call order, and the AssistantRecord of the text.
EndsWithCycle(msgs, calls) ==
    LET n == Len(calls)
        first == Len(msgs) - n - 1
    IN  /\ first >= 1
        /\ msgs[first].role = "assistant"
        /\ msgs[first].tool_calls = calls
        /\ \A i \in 1..n :
              /\ msgs[first + i].role = "tool"
              /\ msgs[first + i].tool_call_id = calls[i].id
              /\ msgs[first + i].tag = "result"
        /\ msgs[Len(msgs)].role = "assistant"
        /\ msgs[Len(msgs)].tool_calls = << >>
        /\ msgs[Len(msgs)].tag = "completion"

\* C11 as stated: a completion cycle whose first response requests calls of
\* registered tools and whose second response is a text leaves the context
\* ending with the AssistantRecord of the calls, one ToolResponseRecord per
\* call in call order, and the final AssistantRecord.
C11_ToolCycleRecords ==
    \A p \in Callers :
        TwoStepCycle(p) => EndsWithCycle(Ctx, frame[p].requested)

\* The same cycle leaves these records when the AssistantRecord of the calls
\* and its tool responses together cost no more than the context window.
C11_ToolCycleRecordsInWindow ==
    \A p \in Callers :
        (TwoStepCycle(p) /\ 1 + Len(frame[p].requested) <= context_window)
            => EndsWithCycle(Ctx, frame[p].requested)

\* A cycle of this kind with one tool call, after a message was ingested.
C11_Witness ==
    \E p \in Callers :
        /\ TwoStepCycle(p)
        /\ frame[p].op = "completion"
        /\ Len(frame[p].requested) = 1
        /\ Len(Ctx) = 4
        /\ Ctx[1].role = "user"
        /\ EndsWithCycle(Ctx, frame[p].requested)

\* C12: a call of ingest_message appends exactly one User record at the end
\* of the shared context, changes no record already there, and makes no
\* call of the completion client.
C12_IngestAppendsOneUserRecord ==
    [][\A p \in Callers :
          (frame[p].pc = "waiting" /\ frame'[p].pc = "idle") =>
             /\ Len(messages') = Len(messages) + 1
             /\ SubSeq(messages', 1, Len(messages)) = messages
             /\ messages'[Len(messages')].role = "user"
             /\ messages'[Len(messages')].tag = "message"
             /\ isolated_messages' = isolated_messages
             /\ rounds' = rounds
             /\ \A q \in Callers :
                   /\ frame'[q].completions = frame[q].completions
                   /\ frame'[q].pc # "client"]_vars

\* C12 witness: one message was ingested into an empty context, which holds
\* 1 User record and no AssistantRecord, and no completion was started.
C12_Witness ==
    /\ ops_started = 1
    /\ Len(messages) = 1
    /\ messages[1].role = "user"
    /\ messages[1].tag = "message"
    /\ \A p \in Callers : frame[p].pc = "idle"
    /\ \E p \in Callers : appenders = {p}
    /\ rounds = 0

\* C13: while run_autonomous_task runs, the context from which the payloads
\* of the completion client are built holds only the task prompt and records
\* made in the isolated run, never a record of the shared context.
C13_AutonomousIsolation ==
    /\ context_is_isolated =>
          \A i \in DOMAIN isolated_messages :
              isolated_messages[i].origin = "isolated"
    /\ \A p \in Callers :
          (frame[p].op = "autonomous" /\ frame[p].pc = "client") =>
              /\ context_is_isolated
              /\ \A i \in DOMAIN Prepared(Ctx) :
                    Prepared(Ctx)[i].origin = "isolated"

\* C13 witness: the second payload of an autonomous run, with the records of
\* a tool call in it, is out while the shared context holds records.
C13_Witness ==
    \E p \in Callers :
        /\ frame[p].op = "autonomous"
        /\ frame[p].pc = "client"
        /\ frame[p].completions = 2
        /\ messages # << >>
        /\ Len(isolated_messages) = 3
        /\ isolated_messages[1].tag = "task_prompt"
        /\ isolated_messages[3].role = "tool"

\* The step in which run_autonomous_task, called by p, restores the shared
\* context, copies into it and returns.
AutonomousReturn(p) ==
    /\ frame[p].op = "autonomous"
    /\ frame[p].pc = "return"
    /\ frame'[p].pc = "idle"

\* The records a step added at the end of the shared context.
Added == SubSeq(messages', Len(messages) + 1, Len(messages'))

\* No step of an autonomous run changes a record of the shared context or
\* adds to it a ToolResponseRecord or a User record.
AutonomousKeepsShared ==
    [][context_is_isolated =>
          /\ Len(messages') >= Len(messages)
          /\ SubSeq(messages', 1, Len(messages)) = messages
          /\ context_is_isolated' => messages' = messages
          /\ \A i \in DOMAIN Added : Added[i].role = "assistant"]_vars

\* C14 as stated: an autonomous run leaves the records of the shared context
\* as they were and in the same order, and when it returns adds after them
\* only clones, marked autonomous, of AssistantRecords of the isolated run.
C14_SharedGetsOnlyClones ==
    [][context_is_isolated =>
          /\ Len(messages') >= Len(messages)
          /\ SubSeq(messages', 1, Len(messages)) = messages
          /\ context_is_isolated' => messages' = messages
          /\ \A i \in DOMAIN Added :
                /\ Added[i].role = "assistant"
                /\ Added[i].autonomous_task
                /\ \E j \in DOMAIN isolated_messages :
                      /\ isolated_messages[j].role = "assistant"
                      /\ Added[i] = Clone(isolated_messages[j])]_vars

\* C15 as stated: the last record run_autonomous_task appends to the shared
\* context, which it returns, is the clone of the AssistantRecord that the
\* isolated completion loop returned, the last record of the isolated
\* context; the failure record is not produced when there is one.
C15_ReturnsFinalClone ==
    [][\A p \in Callers :
          AutonomousReturn(p) =>
             /\ isolated_messages # << >>
             /\ isolated_messages[Len(isolated_messages)].role = "assistant"
             /\ messages' # << >>
             /\ messages'[Len(messages')] =
                   Clone(isolated_messages[Len(isolated_messages)])]_vars

\* ===================================================================
\* Properties of the task scheduler, checked under SpecScheduler
\* ===================================================================

TaskIds == DOMAIN scheduled_tasks

\* The step awaits self.executor for the task id.
ExecutorInvoked(id) == executor_calls'[id] > executor_calls[id]

\* C16: under any interleaving of scheduling, cancellation and worker ticks,
\* the status of a task changes only from pending to completed, failed or
\* cancelled; a task in a terminal status never changes status again.
C16_StatusOnlyLeavesPending ==
    [][\A id \in TaskIds :
          scheduled_tasks'[id].status # scheduled_tasks[id].status
             => /\ scheduled_tasks[id].status = "pending"
                /\ scheduled_tasks'[id].status \in Terminal]_vars

\* C17: a cancel that races the worker cannot both cancel and execute the
\* same task: once cancel_task has returned True for a task, the executor
\* is not invoked for it.
C17_NoExecutionAfterCancel ==
    [][\A id \in 1..MaxTasks : ExecutorInvoked(id) => id \notin cancelled_ok]_vars

\* C18: every task is passed to the executor at most once over its lifetime,
\* across any number of poll ticks and any sequence of worker stop and start.
C18_AtMostOneAttempt ==
    \A id \in 1..MaxTasks : executor_calls[id] <= 1

\* The step is a call of get_pending_tasks.
Polled == pending_result'.called

\* What get_pending_tasks returned in the step.
Fetched == pending_result'.tasks

\* C19: get_pending_tasks returns exactly the tasks whose status is pending
\* and whose execute_at <= now, in ascending order of execute_at, and leaves
\* the store unchanged; a task with a terminal status or a future execute_at
\* is not returned.
C19_DueTasks ==
    [][Polled =>
          /\ {Fetched[k].id : k \in DOMAIN Fetched}
                = {id \in TaskIds :
                      /\ scheduled_tasks[id].status = "pending"
                      /\ fromisoformat(scheduled_tasks[id].execute_at) <= now}
          /\ \A a, b \in DOMAIN Fetched :
                a < b => /\ Fetched[a].id # Fetched[b].id
                         /\ Fetched[a].execute_at <= Fetched[b].execute_at
          /\ \A k \in DOMAIN Fetched :
                Fetched[k] = ScheduledTask(scheduled_tasks[Fetched[k].id])
          /\ scheduled_tasks' = scheduled_tasks]_vars

\* C19 witness: get_pending_tasks returned two due tasks, one of them due
\* at this very tick, in the order of their execute_at, which is not the
\* order in which they were inserted.
C19_Witness ==
    /\ pending_result.called
    /\ Len(pending_result.tasks) = 2
    /\ pending_result.tasks[1].id > pending_result.tasks[2].id
    /\ pending_result.tasks[1].execute_at < pending_result.tasks[2].execute_at
    /\ pending_result.tasks[2].execute_at = now

\* The step is a call of cancel_task.
Cancelled == cancel_result'.task_id # NoId

\* C20: cancel_task(task_id, user_id=U) returns False and leaves the status
\* unchanged when the task belongs to another user or is not pending;
\* cancel_task(task_id) without a user succeeds on any pending task whoever
\* owns it; cancel_task returns True only when it changed a pending task to
\* cancelled.
C20_CancelOwnership ==
    [][Cancelled =>
          LET id == cancel_result'.task_id
              U == cancel_result'.user_id
              returned == cancel_result'.returned
              pending == id \in TaskIds /\ scheduled_tasks[id].status = "pending"
          IN  /\ (U # NoUser /\ (~pending \/ scheduled_tasks[id].user_id # U))
                    => ~returned /\ scheduled_tasks' = scheduled_tasks
              /\ (U = NoUser /\ pending)
                    => returned /\ scheduled_tasks'[id].status = "cancelled"
              /\ returned
                    => pending /\ scheduled_tasks'[id].status = "cancelled"
              /\ \A other \in TaskIds \ {id} :
                    scheduled_tasks'[other] = scheduled_tasks[other]]_vars

\* C20 witness: a user asked to cancel a pending task of another user and
\* was refused, and the task is still pending.
C20_Witness ==
    /\ cancel_result.user_id # NoUser
    /\ ~cancel_result.returned
    /\ cancel_result.task_id \in TaskIds
    /\ scheduled_tasks[cancel_result.task_id].user_id # cancel_result.user_id
    /\ scheduled_tasks[cancel_result.task_id].status = "pending"


\* The step is the worker fetching the due tasks of a poll tick.
TickBegins == worker.pc \in {"created", "sleeping"} /\ pending_result'.called

\* The step is the worker taking up its loop when the executor has ended.
ExecutorEnded ==
    /\ worker.pc = "executing"
    /\ worker'.pc \in {"executing", "sleeping"}
    /\ worker'.i # worker.i

\* The step awaits the executor for the task and for no other, once, with
\* the channel, user, description and message id of the task's row.
InvokedFor(task) ==
    /\ executor_calls' =
           [executor_calls EXCEPT ![task.id] = executor_calls[task.id] + 1]
    /\ worker'.pc = "executing"
    /\ worker'.call.channel_id = scheduled_tasks[task.id].channel_id
    /\ worker'.call.user_id = scheduled_tasks[task.id].user_id
    /\ worker'.call.task_description = scheduled_tasks[task.id].task_description
    /\ worker'.call.message_id = scheduled_tasks[task.id].message_id

\* C21: in one poll tick the worker invokes the executor once for each due
\* task, in turn, with that task's channel, user, description and origin
\* message id; a task whose executor returns is marked completed, a task
\* whose executor raises is marked failed, and after a failure the executor
\* is still invoked for the next due task of the tick.
C21_PollTick ==
    [][/\ TickBegins =>
             /\ worker'.pending_tasks = Fetched
             /\ {Fetched[k].id : k \in DOMAIN Fetched}
                   = {id \in TaskIds :
                         /\ scheduled_tasks[id].status = "pending"
                         /\ fromisoformat(scheduled_tasks[id].execute_at) <= now}
             /\ \A a, b \in DOMAIN Fetched : a < b => Fetched[a].id # Fetched[b].id
             /\ IF Fetched = << >>
                THEN executor_calls' = executor_calls /\ worker'.pc = "sleeping"
                ELSE worker'.i = 1 /\ InvokedFor(Fetched[1])
       /\ ExecutorEnded =>
             LET task == worker.pending_tasks[worker.i]
             IN  /\ worker'.outcome \in {"returned", "raised"}
                 /\ worker'.outcome = "returned"
                       => scheduled_tasks'[task.id].status = "completed"
                 /\ worker'.outcome = "raised"
                       => scheduled_tasks'[task.id].status = "failed"
                 /\ \A other \in TaskIds \ {task.id} :
                       scheduled_tasks'[other] = scheduled_tasks[other]
                 /\ worker'.pending_tasks \in {worker.pending_tasks, << >>}
                 /\ IF worker.i < Len(worker.pending_tasks)
                    THEN /\ worker'.i = worker.i + 1
                         /\ InvokedFor(worker.pending_tasks[worker.i + 1])
                    ELSE /\ executor_calls' = executor_calls
                         /\ worker'.pc = "sleeping"]_vars

\* C21 witness: in one tick the executor raised for the first due task,
\* which is marked failed, and the executor is awaited for the second due
\* task, which belongs to another user.
C21_Witness ==
    /\ worker.pc = "executing"
    /\ worker.i = 2
    /\ worker.outcome = "raised"
    /\ scheduled_tasks[worker.pending_tasks[1].id].status = "failed"
    /\ worker.pending_tasks[1].user_id # worker.pending_tasks[2].user_id
    /\ worker.call = ExecutorArgs(worker.pending_tasks[2])
    /\ executor_calls[worker.pending_tasks[2].id] = 1

\* stop_worker has returned, or start_worker was never called.
Stopped == ~running /\ ~worker.stop_awaits

\* C22: after stop_worker() has returned, there is no worker loop: the
\* executor is not invoked and the worker writes no task status (completed
\* or failed) until start_worker() is called again.
C22_NothingAfterStop ==
    [][Stopped =>
          /\ worker.pc = "none"
          /\ executor_calls' = executor_calls
          /\ \A id \in TaskIds :
                scheduled_tasks'[id].status # scheduled_tasks[id].status
                   => scheduled_tasks'[id].status = "cancelled"]_vars

\* C22 witness: the worker was started, it completed a task, and
\* stop_worker has returned; a pending task that is due and was never passed
\* to the executor stays as it is.
C22_Witness ==
    /\ Stopped
    /\ starts > 0
    /\ \E id \in TaskIds : scheduled_tasks[id].status = "completed"
    /\ \E id \in TaskIds :
          /\ scheduled_tasks[id].status = "pending"
          /\ fromisoformat(scheduled_tasks[id].execute_at) <= now
          /\ executor_calls[id] = 0


\* ===================================================================
\* Properties of the scheduling tools, checked under SpecQuota
\* ===================================================================

\* The step is a call of the schedule_task tool.
ToolScheduled == schedule_result'.user_id # NoUser

\* C23: for every user, the number of pending tasks never exceeds 10 when
\* tasks are created through the schedule_task tool, under any interleaving
\* of scheduling requests, cancellations and worker executions; a request
\* made while the user has 10 pending tasks returns an error response and
\* persists no row.
C23_PendingQuota ==
    [][/\ \A u \in Users :
             count_pending_user_tasks(scheduled_tasks', u) <= 10
       /\ \A u \in Users :
             (/\ ToolScheduled
              /\ schedule_result'.user_id = u
              /\ count_pending_user_tasks(scheduled_tasks, u) = 10)
                => /\ schedule_result'.error # None
                   /\ schedule_result'.task_id = NoId
                   /\ scheduled_tasks' = scheduled_tasks]_vars

\* C23 witness: a user who has 10 pending tasks, after one of the tasks was
\* cancelled or executed and one more was scheduled, is refused a further
\* task.
C23_Witness ==
    /\ schedule_result.error = "limit"
    /\ count_pending_user_tasks(scheduled_tasks, schedule_result.user_id) = 10
    /\ Len(scheduled_tasks) = 11
    /\ Ended # {}

\* C24: scheduling a 6th task for a user who already has 5 pending tasks
\* returns a limit-reached error and does not persist a new row.
C24_LimitOfFive ==
    [][\A u \in Users :
          (/\ ToolScheduled
           /\ schedule_result'.user_id = u
           /\ count_pending_user_tasks(scheduled_tasks, u) = 5)
             => /\ schedule_result'.error = "limit"
                /\ scheduled_tasks' = scheduled_tasks]_vars


\* ===================================================================
\* Properties of prepare_payload(), checked under SpecPayload
\* ===================================================================

\* The last operation on the context was prepare_payload().
PayloadPrepared == trimmed /\ payload # << >>

\* C25: in every payload entry produced from the context, an AssistantRecord
\* with non-empty tool_calls serializes with content null plus its tool-call
\* list, and a ToolResponseRecord serializes with role tool, its
\* tool_call_id and content as a single JSON string, never a component list.
C25_Serialization ==
    PayloadPrepared =>
       /\ Len(payload) = Len(messages) + 1
       /\ \A k \in DOMAIN messages :
             LET m == messages[k]
                 entry == payload[k + 1]
             IN  /\ (m.role = "assistant" /\ m.tool_calls # << >>)
                       => /\ entry.role = "assistant"
                          /\ entry.content = "null"
                          /\ Len(entry.tool_calls) = Len(m.tool_calls)
                          /\ \A i \in DOMAIN m.tool_calls :
                                /\ entry.tool_calls[i].id = m.tool_calls[i].id
                                /\ entry.tool_calls[i].name
                                      = m.tool_calls[i].function_name
                 /\ m.role = "tool"
                       => /\ entry.role = "tool"
                          /\ entry.tool_call_id = m.tool_call_id
                          /\ entry.content = "string"

\* C25 witness: a payload holds the entry of an AssistantRecord with two tool
\* calls, with content null, followed by the entry of a ToolResponseRecord.
C25_Witness ==
    /\ PayloadPrepared
    /\ \E k \in 2..(Len(payload) - 1) :
          /\ payload[k].content = "null"
          /\ Len(payload[k].tool_calls) = 2
          /\ payload[k + 1].role = "tool"
          /\ payload[k + 1].content = "string"
          /\ payload[k + 1].tool_call_id = payload[k].tool_calls[1].id

\* The payload entry is the serialization of the stored record.
Serializes(entry, m) ==
    /\ entry.role = m.role
    /\ entry.tool_call_id = m.tool_call_id
    /\ Len(entry.tool_calls) = Len(m.tool_calls)
    /\ \A i \in DOMAIN m.tool_calls : entry.tool_calls[i].id = m.tool_calls[i].id
    /\ entry.content # "null" => entry.text = m.tokens

\* C26: prepare_payload() first trims the stored records and then returns
\* exactly one developer entry rendered from the current developer prompt,
\* followed by the serialization of every stored record that survived the
\* trim, in stored order; the developer record is never added to the stored
\* record list.
C26_PreparePayload ==
    /\ \A i \in DOMAIN messages : messages[i].role # "developer"
    /\ PayloadPrepared =>
          /\ messages = TrimResult(pre_messages, now, context_window,
                                   DEFAULT_CONTEXT_AGE)
          /\ payload[1].role = "developer"
          /\ payload[1].text = developer_prompt
          /\ Len(payload) = Len(messages) + 1
          /\ \A k \in DOMAIN messages :
                /\ payload[k + 1].role # "developer"
                /\ Serializes(payload[k + 1], messages[k])

\* C26 witness: prepare_payload() was called after the developer prompt was
\* changed; the trim removed a record and left others, and the payload holds
\* the new prompt and the records left.
C26_Witness ==
    /\ PayloadPrepared
    /\ developer_prompt = "prompt with profile"
    /\ payload[1].text = developer_prompt
    /\ Len(messages) < Len(pre_messages)
    /\ Len(messages) >= 2
    /\ Len(payload) = Len(messages) + 1

\* ===================================================================
\* Properties of the execution of tools, checked under SpecTools
\* ===================================================================

\* The step in which _execute_tools, in the call of p, treats the first of
\* the tool calls that remain.
Executes(p) == frame[p].pc = "tools" /\ frame'[p] # frame[p]

\* After the step, _execute_tools goes on with the calls that remained, or,
\* when there is none, _run_completion_unsafe is called one level deeper.
GoesOn(p) ==
    IF Len(frame[p].tool_calls) > 1
    THEN /\ frame'[p].pc = "tools"
         /\ frame'[p].tool_calls = Tail(frame[p].tool_calls)
    ELSE /\ frame'[p].pc = "enter"
         /\ frame'[p].recursion_depth = frame[p].recursion_depth + 1

\* C27: when the handler of a tool call raises, a ToolResponseRecord with the
\* id of the call and the error payload is appended to the context, and the
\* cycle goes on with the remaining calls and then the follow-up completion.
C27_HandlerRaises ==
    [][\A p \in Callers :
          (Executes(p) /\ last_tool'.outcome = "raised") =>
             LET tool_call == Head(frame[p].tool_calls)
             IN  /\ last_tool'.id = tool_call.id
                 /\ Len(Ctx') = Len(Ctx) + 1
                 /\ SubSeq(Ctx', 1, Len(Ctx)) = Ctx
                 /\ Ctx'[Len(Ctx')].role = "tool"
                 /\ Ctx'[Len(Ctx')].tool_call_id = tool_call.id
                 /\ Ctx'[Len(Ctx')].tag = "error"
                 /\ GoesOn(p)]_vars

\* C27 witness: the handler of the first call raised, the second call was
\* executed after it, and the follow-up completion has its payload.
C27_Witness ==
    \E p \in Callers :
        /\ frame[p].pc = "client"
        /\ frame[p].completions = 2
        /\ Len(Ctx) >= 3
        /\ Ctx[Len(Ctx) - 1].tag = "error"
        /\ Ctx[Len(Ctx)].tag = "result"

\* The tool call is of a tool that the registry does not hold.
NotInRegistry(tool_call) ==
    tool_call.function_name \notin {"schedule_task", "search_web"}

\* C28: a tool call whose name is not in the registry is skipped: no handler
\* runs, no ToolResponseRecord is appended, nothing is raised, and the other
\* calls of the response are executed in order.
C28_UnknownSkipped ==
    [][\A p \in Callers :
          (Executes(p) /\ NotInRegistry(Head(frame[p].tool_calls))) =>
             /\ last_tool'.outcome = "skipped"
             /\ handler_runs' = handler_runs
             /\ Ctx' = Ctx
             /\ GoesOn(p)]_vars

\* C28 witness: of three calls the first was executed, the second, of an
\* unknown tool, was skipped, and the third remains.
C28_Witness ==
    \E p \in Callers :
        /\ frame[p].pc = "tools"
        /\ Len(frame[p].tool_calls) = 1
        /\ last_tool.outcome = "skipped"
        /\ Ctx[Len(Ctx)].role = "tool"
        /\ Ctx[Len(Ctx)].tag \in {"result", "error"}

\* ===================================================================
\* The empty response, checked under SpecSession
\* ===================================================================

\* The step in which the completion client returns to p a response with no
\* text and no tool call.
EmptyReturned(p) == frame[p].pc = "client" /\ frame'[p].pc = "enter"

\* C29: on an empty response the AssistantRecord is removed, one nudge User
\* record is appended and the completion recurses one level deeper; at the
\* depth ceiling of 10 the canned depth-limit text is returned.
C29_EmptyResponse ==
    [][\A p \in Callers :
          /\ EmptyReturned(p) =>
                /\ Len(Ctx') = Len(Ctx) + 1
                /\ SubSeq(Ctx', 1, Len(Ctx)) = Ctx
                /\ Ctx'[Len(Ctx')].role = "user"
                /\ Ctx'[Len(Ctx')].tag = "nudge"
                /\ frame'[p].recursion_depth = frame[p].recursion_depth + 1
                /\ frame'[p].recursion_depth <= MAX_RECURSION_DEPTH
          /\ (/\ frame[p].pc = "enter"
              /\ frame[p].recursion_depth = MAX_RECURSION_DEPTH
              /\ frame'[p] # frame[p]) =>
                /\ frame'[p].pc = "return"
                /\ frame'[p].result = "depth_limit"
                /\ Ctx'[Len(Ctx')].tag = "depth_limit"]_vars

\* C29 witness: MAX_RECURSION_DEPTH completions all returned an empty
\* response, the last one was answered by a nudge, and the canned text is
\* returned.
C29_Witness ==
    \E p \in Callers :
        /\ frame[p].result = "depth_limit"
        /\ frame[p].completions = MAX_RECURSION_DEPTH
        /\ total_tool_calls = 0
        /\ Len(Ctx) >= 2
        /\ Ctx[Len(Ctx)].tag = "depth_limit"
        /\ Ctx[Len(Ctx) - 1].tag = "nudge"
        /\ \A i \in DOMAIN Ctx : Ctx[i].tag # "empty"

\* ===================================================================
\* Failures of the completion client, checked under SpecImages
\* ===================================================================

\* The step in which create_completion, awaited in the call of p, raises.
Failed(p) ==
    /\ frame[p].pc \in {"client", "retry"}
    /\ frame'[p].pc \in {"retry", "raise"}
    /\ frame'[p] # frame[p]

\* C30: a first failure for an invalid image strips the Image components of
\* every record of the context and the call is made once more; a failure of
\* that call, and any other failure, leaves as an exception with no image
\* stripped.
C30_InvalidImageRetry ==
    [][\A p \in Callers :
          /\ (Failed(p) /\ frame[p].pc = "client"
                        /\ \E i \in DOMAIN Ctx : contains_image(Ctx[i])) =>
                \/ /\ frame'[p].pc = "retry"
                   /\ frame'[p].completions = frame[p].completions + 1
                   /\ \A i \in DOMAIN Ctx' : ~contains_image(Ctx'[i])
                \/ /\ frame'[p].pc = "raise"
                   /\ frame'[p].result = "other"
                   /\ Ctx' = Ctx
          /\ (Failed(p) /\ frame[p].pc = "client"
                        /\ \A i \in DOMAIN Ctx : ~contains_image(Ctx[i])) =>
                /\ frame'[p].pc = "raise"
                /\ Ctx' = Ctx
          /\ (Failed(p) /\ frame[p].pc = "retry") =>
                /\ frame'[p].pc = "raise"
                /\ frame'[p].completions = frame[p].completions
                /\ Ctx' = Ctx
          /\ (frame[p].pc = "raise" /\ frame'[p] # frame[p]) =>
                /\ frame'[p].pc = "idle"
                /\ lock' = None
                /\ messages' = messages]_vars

\* C30 witness: the first call failed for an invalid image, the images were
\* stripped, the second call failed too and its exception is leaving.
C30_Witness ==
    \E p \in Callers :
        /\ frame[p].pc = "raise"
        /\ frame[p].completions = 2
        /\ rounds = 0
        /\ Ctx # << >>
        /\ \A i \in DOMAIN Ctx : ~contains_image(Ctx[i])

\* ===================================================================
\* The trigger message seen by the handlers, checked under SpecSession
\* ===================================================================

\* The step in which _execute_tools, in the call of p, awaits a handler.
HandlerRuns(p) ==
    /\ Executes(p)
    /\ last_tool'.outcome \in {"executed", "raised"}

\* C31: in a completion cycle started with a trigger message, whenever a
\* handler runs, at any recursion depth, session.trigger_message is the
\* trigger message of the cycle.
C31_HandlersSeeTrigger ==
    [][\A p \in Callers :
          (HandlerRuns(p) /\ frame[p].trigger_message) =>
              trigger_message]_vars

\* At recursion depth 0 the handlers of such a cycle do see the trigger.
C31_AtDepthZero ==
    [][\A p \in Callers :
          (HandlerRuns(p) /\ frame[p].trigger_message
                          /\ frame[p].recursion_depth = 0) =>
              trigger_message]_vars

\* ===================================================================
\* Starting and stopping the worker, checked under SpecWorker
\* ===================================================================

\* A worker loop exists: its task was created and has not ended.
LoopAlive == worker.pc # "none"

\* The step creates a worker loop.
LoopCreated == starts' = starts + 1

PendingDue(id) ==
    /\ id \in DOMAIN scheduled_tasks
    /\ scheduled_tasks[id].status = "pending"
    /\ fromisoformat(scheduled_tasks[id].execute_at) <= now

\* C33: while the worker runs and the executor ends, every pending task
\* whose execute_at has passed leaves the pending status, and the poll tick
\* that begins when it is due takes it.
C33_DueTasksLeavePending ==
    /\ \A id \in 1..MaxTasks :
          (running /\ PendingDue(id)) ~>
              (id \in DOMAIN scheduled_tasks
                  /\ scheduled_tasks[id].status \in Terminal)
    /\ [][TickBegins =>
             \A id \in 1..MaxTasks :
                 PendingDue(id) =>
                     \E k \in DOMAIN worker'.pending_tasks :
                         worker'.pending_tasks[k].id = id]_vars

\* C33 witness: the executor returned for a due task and raised for
\* another, both left the pending status, and the worker sleeps.
C33_Witness ==
    /\ running
    /\ worker.pc = "sleeping"
    /\ \E a, b \in DOMAIN scheduled_tasks :
          /\ scheduled_tasks[a].status = "completed"
          /\ scheduled_tasks[b].status = "failed"

\* ===================================================================
\* The purge of old tasks, checked under SpecPurge
\* ===================================================================

\* The step is the DELETE of cleanup_old_tasks.
PurgeRuns ==
    \E i \in DOMAIN scheduled_tasks :
        scheduled_tasks[i] # NoRow /\ scheduled_tasks'[i] = NoRow

\* C34: the purge deletes only rows in a terminal status created before the
\* cutoff, and leaves every other row, a pending one of any age among them,
\* as it was.
C34_PurgeFrame ==
    [][PurgeRuns =>
          /\ DOMAIN scheduled_tasks' = DOMAIN scheduled_tasks
          /\ \A i \in DOMAIN scheduled_tasks :
                IF scheduled_tasks'[i] = scheduled_tasks[i] THEN TRUE
                ELSE /\ scheduled_tasks'[i] = NoRow
                     /\ scheduled_tasks[i].status \in Terminal
                     /\ fromisoformat(scheduled_tasks[i].created_at)
                            < Cutoff(now, 1)
          /\ \A i \in DOMAIN scheduled_tasks :
                scheduled_tasks[i].status = "pending" =>
                    scheduled_tasks'[i] = scheduled_tasks[i]]_vars

\* C34 witness: of two rows created before the cutoff, the pending one is
\* there after the purge and the other one is gone.
C34_Witness ==
    \E i, j \in DOMAIN scheduled_tasks :
        /\ scheduled_tasks[i] = NoRow
        /\ scheduled_tasks[j].status = "pending"
        /\ fromisoformat(scheduled_tasks[j].created_at) < Cutoff(now, 1)

\* ===================================================================
\* The token cost of a payload, checked under SpecPayload
\* ===================================================================

\* The token cost of the payload: the developer record and the records of
\* the context it was built from.
PayloadTokens == PromptTokens(developer_prompt) + SumTokens(messages)

\* C35: the token cost of every payload, developer prompt and history, is
\* within context_window, except when the newest record alone, the only one
\* kept, exceeds it.
C35_PayloadWithinWindow ==
    PayloadPrepared =>
       \/ PayloadTokens <= context_window
       \/ /\ Len(messages) = 1
          /\ token_count(messages[1]) > context_window

\* The history alone is within context_window, with the same exception:
\* trim() does not count the developer prompt.
C35_HistoryWithinWindow ==
    PayloadPrepared =>
       \/ SumTokens(messages) <= context_window
       \/ /\ Len(messages) = 1
          /\ token_count(messages[1]) >= context_window

\* ===================================================================
\* forget, checked under SpecForget
\* ===================================================================

\* The step is a call of forget: a context changes and no call on the
\* session moves.
Forgets ==
    /\ frame' = frame
    /\ <<messages, isolated_messages>>' # <<messages, isolated_messages>>

\* C36: forget empties the shared context, also while run_autonomous_task
\* or run_completion is in flight: no record of the shared context is left
\* when forget returns.
C36_ForgetEmptiesShared ==
    [][Forgets => messages' = << >>]_vars

\* Outside an autonomous run forget does empty the shared context, and in
\* an autonomous run it empties the isolated one.
C36_ForgetEmptiesCurrent ==
    [][Forgets => Ctx' = << >>]_vars

\* ===================================================================
\* The attachments of a trigger message, checked under SpecMessages
\* ===================================================================

\* The step in which process_attachments(trigger_message) returns in the
\* call p and its components are added to a record.
AttachmentsAdded(p) ==
    frame[p].pc = "attachments" /\ frame'[p].pc = "client"

\* The places in the context of the records made from the message of p.
PlacesOf(p) == {i \in DOMAIN Ctx : Ctx[i].tag = p}

\* C37: the attachment components of a trigger message are added to the
\* User record made by ingesting that message, also when another message
\* was ingested or a completion ended since.
C37_AttachmentsOnTriggerRecord ==
    [][\A p \in Callers :
          (AttachmentsAdded(p) /\ PlacesOf(p) # {}) =>
              LET i == CHOOSE k \in PlacesOf(p) : \A j \in PlacesOf(p) : j <= k
              IN  Ctx' = Prepared([Ctx EXCEPT ![i].tokens = @ + 1])]_vars

\* When the record of the trigger message is the last one of the context,
\* the components are added to it.
C37_WhenTriggerIsLast ==
    [][\A p \in Callers :
          (AttachmentsAdded(p) /\ Ctx # << >> /\ Ctx[Len(Ctx)].tag = p) =>
              Ctx' = Prepared([Ctx EXCEPT ![Len(Ctx)].tokens = @ + 1])]_vars

\* ===================================================================
\* The profile text of the developer prompt, checked under SpecChat
\* ===================================================================

\* C38: the profile text in the developer prompt of every completion of a
\* request is the one computed for the trigger or the owner of that request,
\* whatever is handled in the other channels meanwhile.
C38_OwnProfileInPrompt ==
    \A ch \in Channels :
        requests[ch].pc = "client" => requests[ch].prompt = requests[ch].profile

\* The prompt of a completion holds the profile text injected last, by
\* whichever request, at the time the completion is made.
C38_LastInjectedProfile ==
    [][\A ch \in Channels :
          (requests[ch].pc # "client" /\ requests'[ch].pc = "client") =>
              requests'[ch].prompt = user_profile']_vars

\* ===================================================================
\* The session after a call that raised, checked under SpecImages
\* ===================================================================

\* The step in which the exception of the call of p reaches its caller.
Raised(p) == frame[p].pc = "raise" /\ frame'[p].pc = "idle"

\* The step in which a top-level completion of p passes the counters.
RootEnters(p) ==
    /\ frame[p].pc = "enter"
    /\ frame[p].recursion_depth = 0
    /\ frame'[p].pc # "enter"

\* C39: when run_completion or run_autonomous_task ends by raising, the lock
\* is released, session.context is the shared context and the counter of
\* tool calls is None, whatever the depth of the failure; the next top-level
\* call takes the lock and its completion starts with no tool call counted.
C39_IdleAfterRaise ==
    [][\A p \in Callers :
          /\ Raised(p) =>
                /\ lock' = None
                /\ ~context_is_isolated'
                /\ isolated_messages' = << >>
                /\ tool_call_counter' = NoCounter
                /\ messages' = messages
          /\ RootEnters(p) =>
                /\ total_tool_calls' = 0
                /\ tool_call_counter' = NewCounter]_vars

\* C39 witness: a completion ran a tool, its second call of the client
\* failed and the exception has left: the shared context ends with the
\* tool response, tool calls were counted, and the session is idle.
C39_Witness ==
    /\ lock = None
    /\ \A p \in Callers : frame[p].pc \in {"idle", "waiting"}
    /\ \E p \in Callers : frame[p].pc = "waiting"
    /\ ~context_is_isolated
    /\ tool_call_counter = NoCounter
    /\ total_tool_calls > 0
    /\ messages # << >>
    /\ messages[Len(messages)].role = "tool"

=============================================================================
